---- MODULE Spec2Model ----
(***************************************************************************)
(* Web Page Replay: the request/response pipeline of httpproxy.py and      *)
(* httpclient.py.  Strings are sequences of one-character strings, so that *)
(* offsets, slices and regular-expression matches are computed as Python   *)
(* computes them.                                                          *)
(***************************************************************************)
EXTENDS Integers, Sequences, FiniteSets, TLC

\* ------------------------------------------------------------------------
\* Python string primitives
\* ------------------------------------------------------------------------

Min2(a, b) == IF a < b THEN a ELSE b
Max2(a, b) == IF a > b THEN a ELSE b

\* A slice bound as Python normalises it (negative counts from the end,
\* everything is clamped to [0, n]).
PyIdx(n, i) == IF i < 0 THEN Max2(n + i, 0) ELSE Min2(i, n)

\* s[a:b] with 0-based Python indices.
PySlice(s, a, b) ==
  LET lo == PyIdx(Len(s), a)
      hi == PyIdx(Len(s), b)
  IN  IF lo >= hi THEN <<>> ELSE SubSeq(s, lo + 1, hi)

\* s[a:]
PyFrom(s, a) == PySlice(s, a, Len(s))

\* s.startswith(p)
StartsWith(s, p) == Len(p) <= Len(s) /\ SubSeq(s, 1, Len(p)) = p

\* p occurs in s at 0-based offset i
OccursAt(s, p, i) == i >= 0 /\ i + Len(p) <= Len(s) /\ SubSeq(s, i + 1, i + Len(p)) = p

\* s.find(p, i): the least 0-based offset >= i at which p occurs, or -1
RECURSIVE Find(_, _, _)
Find(s, p, i) ==
  IF i + Len(p) > Len(s) THEN -1
  ELSE IF OccursAt(s, p, i) THEN i
  ELSE Find(s, p, i + 1)

\* s.rfind(p): the greatest offset at which p occurs, or -1
RECURSIVE RFindFrom(_, _, _)
RFindFrom(s, p, i) ==
  IF i < 0 THEN -1
  ELSE IF OccursAt(s, p, i) THEN i
  ELSE RFindFrom(s, p, i - 1)

RFind(s, p) == RFindFrom(s, p, Len(s) - Len(p))

\* s.replace(old, new): every non-overlapping occurrence, left to right
RECURSIVE Replace(_, _, _)
Replace(s, old, new) ==
  IF Len(old) = 0 THEN s
  ELSE LET i == Find(s, old, 0)
       IN  IF i < 0 THEN s
           ELSE SubSeq(s, 1, i) \o new \o Replace(PyFrom(s, i + Len(old)), old, new)

\* s.split(sep) for a one-character separator
RECURSIVE Split(_, _)
Split(s, sep) ==
  LET i == Find(s, <<sep>>, 0)
  IN  IF i < 0 THEN <<s>>
      ELSE <<SubSeq(s, 1, i)>> \o Split(PyFrom(s, i + 1), sep)

\* sep.join(parts)
RECURSIVE Join(_, _)
Join(parts, sep) ==
  IF Len(parts) = 0 THEN <<>>
  ELSE IF Len(parts) = 1 THEN parts[1]
  ELSE parts[1] \o <<sep>> \o Join(Tail(parts), sep)

\* ''.join(chunks)
RECURSIVE Concat(_)
Concat(chunks) == IF Len(chunks) = 0 THEN <<>> ELSE chunks[1] \o Concat(Tail(chunks))

\* sum(len(c) for c in chunks)
RECURSIVE SumLen(_)
SumLen(chunks) ==
  IF Len(chunks) = 0 THEN 0 ELSE Len(chunks[1]) + SumLen(Tail(chunks))

\* ------------------------------------------------------------------------
\* Regular expressions (the subset of Python's re the rules use):
\* literals, \c escapes, '.', groups, and the postfix operators ? and *
\* on a character or (for ?) on a group.  Matching backtracks in Python's
\* order: greedy first.
\* ------------------------------------------------------------------------

NoItem == [t |-> "chr", c |-> "", q |-> "1", g |-> 0, j |-> 0]

Quant(text, i) ==
  IF i <= Len(text) /\ text[i] \in {"?", "*", "+"} THEN text[i] ELSE "1"

\* The index of the last "open" item that has no close yet.
RECURSIVE LastOpen(_, _)
LastOpen(items, k) ==
  IF k = 0 THEN 0
  ELSE IF items[k].t = "open" /\ items[k].j = 0 THEN k
  ELSE LastOpen(items, k - 1)

RECURSIVE ParseRe(_, _, _, _)
\* The items of text[i..] appended to items; an item takes at least one
\* character, so items is never longer than the text.
ParseRe(text, i, items, ngroups) ==
  IF i > Len(text) \/ Len(items) > Len(text) THEN items
  ELSE
    CASE text[i] = "\\" ->
           LET q == Quant(text, i + 2)
           IN  ParseRe(text, IF q = "1" THEN i + 2 ELSE i + 3,
                       Append(items, [NoItem EXCEPT !.t = IF text[i + 1] = "d" THEN "digit" ELSE "chr",
                                                    !.c = text[i + 1], !.q = q]),
                       ngroups)
      [] text[i] = "(" ->
           ParseRe(text, i + 1,
                   Append(items, [NoItem EXCEPT !.t = "open", !.g = ngroups + 1]),
                   ngroups + 1)
      [] text[i] = ")" ->
           LET o == LastOpen(items, Len(items))
               q == Quant(text, i + 1)
               closed == [items EXCEPT ![o].j = Len(items) + 1, ![o].q = q]
           IN  ParseRe(text, IF q = "1" THEN i + 1 ELSE i + 2,
                       Append(closed, [NoItem EXCEPT !.t = "close", !.g = items[o].g]),
                       ngroups)
      [] OTHER ->
           LET q == Quant(text, i + 1)
           IN  ParseRe(text, IF q = "1" THEN i + 1 ELSE i + 2,
                       Append(items, [NoItem EXCEPT !.t = IF text[i] = "." THEN "any" ELSE "chr",
                                                    !.c = text[i], !.q = q]),
                       ngroups)

\* re.compile(text)
Compile(text) == ParseRe(text, 1, <<>>, 0)

NGroups(items) == Cardinality({k \in 1..Len(items) : items[k].t = "open"})

DigitChars == {"0", "1", "2", "3", "4", "5", "6", "7", "8", "9"}
LetterChars == {"a", "b", "c", "d", "e", "f", "g", "h", "i", "j", "k", "l", "m", "n", "o",
                "p", "q", "r", "s", "t", "u", "v", "w", "x", "y", "z", "A", "B", "C", "D",
                "E", "F", "G", "H", "I", "J", "K", "L", "M", "N", "O", "P", "Q", "R", "S",
                "T", "U", "V", "W", "X", "Y", "Z"}

\* "digit" is \d, "token" is the class [A-Za-z0-9_\.]
ItemTakes(item, ch) ==
  \/ item.t = "any"
  \/ item.t = "chr" /\ item.c = ch
  \/ item.t = "digit" /\ ch \in DigitChars
  \/ item.t = "token" /\ ch \in LetterChars \cup DigitChars \cup {"_", "."}

\* How many consecutive characters of s from offset pos the item accepts.
RECURSIVE Run(_, _, _)
Run(item, s, pos) ==
  IF pos < Len(s) /\ ItemTakes(item, s[pos + 1]) THEN 1 + Run(item, s, pos + 1) ELSE 0

NoMatch == [ok |-> FALSE, span |-> <<>>, lastindex |-> 0, start |-> -1, end |-> -1]

\* Items k.. of the pattern against s from offset pos; span and lastindex as
\* the match object reports them (lastindex 0 stands for None).
RECURSIVE MatchFrom(_, _, _, _, _, _)
RECURSIVE MatchStar(_, _, _, _, _, _, _)
MatchFrom(items, s, k, pos, span, last) ==
  IF k > Len(items)
    THEN [ok |-> TRUE, span |-> span, lastindex |-> last, start |-> 0, end |-> pos]
  ELSE LET it == items[k] IN
    CASE it.t = "open" ->
           LET in == MatchFrom(items, s, k + 1, pos, [span EXCEPT ![it.g] = <<pos, -1>>], last)
           IN  IF in.ok \/ it.q # "?" THEN in
               ELSE MatchFrom(items, s, it.j + 1, pos, span, last)
      [] it.t = "close" ->
           MatchFrom(items, s, k + 1, pos, [span EXCEPT ![it.g] = <<span[it.g][1], pos>>], it.g)
      [] it.t \notin {"open", "close"} /\ it.q = "*" ->
           MatchStar(items, s, k, pos, Run(it, s, pos), span, last)
      [] it.t \notin {"open", "close"} /\ it.q = "?" ->
           MatchStar(items, s, k, pos, Min2(1, Run(it, s, pos)), span, last)
      [] it.t \notin {"open", "close"} /\ it.q = "+" ->
           IF Run(it, s, pos) = 0 THEN NoMatch
           ELSE MatchStar(items, s, k, pos + 1, Run(it, s, pos) - 1, span, last)
      [] OTHER ->
           IF pos < Len(s) /\ ItemTakes(it, s[pos + 1])
             THEN MatchFrom(items, s, k + 1, pos + 1, span, last)
             ELSE NoMatch
\* Item k taken at most n times, greedy: the match with the greatest number
\* of repetitions after which the rest of the pattern matches.
MatchStar(items, s, k, pos, n, span, last) ==
  LET fits == {m \in 0..n : MatchFrom(items, s, k + 1, pos + m, span, last).ok}
  IN  IF fits = {} THEN NoMatch
      ELSE MatchFrom(items, s, k + 1,
                     pos + (CHOOSE m \in fits : \A x \in fits : x <= m), span, last)

\* pattern.match(s): anchored at the start of s, not at its end.
ReMatch(items, s) ==
  MatchFrom(items, s, 1, 0, [g \in 1..NGroups(items) |-> <<-1, -1>>], 0)

\* pattern.search(s): the match from the first offset from which the pattern
\* matches, its offsets counted in s.
RECURSIVE SearchFrom(_, _, _)
SearchFrom(items, s, i) ==
  IF i > Len(s) THEN NoMatch
  ELSE LET r == MatchFrom(items, PyFrom(s, i), 1, 0,
                          [g \in 1..NGroups(items) |-> <<-1, -1>>], 0)
       IN  IF r.ok
             THEN [ok |-> TRUE,
                   span |-> [g \in 1..NGroups(items) |->
                               IF r.span[g][1] < 0 THEN r.span[g]
                               ELSE <<r.span[g][1] + i, r.span[g][2] + i>>],
                   lastindex |-> r.lastindex, start |-> i, end |-> i + r.end]
             ELSE SearchFrom(items, s, i + 1)

ReSearch(items, s) == SearchFrom(items, s, 0)

\* str(n) and int(s) for the decimal header values
Digits == <<"0", "1", "2", "3", "4", "5", "6", "7", "8", "9">>

RECURSIVE DecStr(_)
DecStr(n) == IF n < 10 THEN <<Digits[n + 1]>> ELSE DecStr(n \div 10) \o <<Digits[(n % 10) + 1]>>

DigitVal(ch) == (CHOOSE k \in 1..10 : Digits[k] = ch) - 1

RECURSIVE ParseInt(_)
ParseInt(s) ==
  IF Len(s) = 0 THEN 0
  ELSE 10 * ParseInt(SubSeq(s, 1, Len(s) - 1)) + DigitVal(s[Len(s)])

HexDigits == <<"0", "1", "2", "3", "4", "5", "6", "7", "8", "9", "a", "b", "c", "d", "e", "f">>

\* '%x' % n
RECURSIVE HexStr(_)
HexStr(n) ==
  IF n < 16 THEN <<HexDigits[n + 1]>> ELSE HexStr(n \div 16) \o <<HexDigits[(n % 16) + 1]>>

CRLF == <<"\r", "\n">>

HexUpper == <<"0", "1", "2", "3", "4", "5", "6", "7", "8", "9", "A", "B", "C", "D", "E", "F">>

IsHex(ch) == \E k \in 1..16 : HexDigits[k] = ch \/ HexUpper[k] = ch

HexVal(ch) == (CHOOSE k \in 1..16 : HexDigits[k] = ch \/ HexUpper[k] = ch) - 1

Whitespace == {" ", "\t", "\r", "\n"}

\* s.strip()
RECURSIVE Strip(_)
Strip(s) ==
  IF Len(s) > 0 /\ s[1] \in Whitespace THEN Strip(Tail(s))
  ELSE IF Len(s) > 0 /\ s[Len(s)] \in Whitespace THEN Strip(SubSeq(s, 1, Len(s) - 1))
  ELSE s

RECURSIVE HexNum(_)
HexNum(s) ==
  IF Len(s) = 0 THEN 0
  ELSE 16 * HexNum(SubSeq(s, 1, Len(s) - 1)) + HexVal(s[Len(s)])

\* int(s, 16) for an unsigned text, which may have white space around it;
\* -1 stands for the ValueError.
ParseHex(s) ==
  LET t == Strip(s)
  IN  IF Len(t) = 0 \/ \E k \in 1..Len(t) : ~IsHex(t[k]) THEN -1 ELSE HexNum(t)

\* fp.readline() at 0-based offset pos: the text up to and with the next
\* line feed, or what is left
ReadLine(text, pos) ==
  LET i == Find(text, <<"\n">>, pos)
  IN  IF i < 0 THEN PyFrom(text, pos) ELSE PySlice(text, pos, i + 1)

\* ------------------------------------------------------------------------
\* The texts of the model: hosts, paths, rule patterns, bodies
\* ------------------------------------------------------------------------

H_abc_foo == <<"a", "b", "c", ".", "f", "o", "o", ".", "c", "o", "m">>
H_xy_foo  == <<"x", "y", ".", "f", "o", "o", ".", "c", "o", "m">>
H_foo     == <<"f", "o", "o", ".", "c", "o", "m">>
H_evil    == <<"e", "v", "i", "l", ".", "c", "o", "m">>
H_example == <<"e", "x", "a", "m", "p", "l", "e", ".", "c", "o", "m">>
H_local   == <<"1", "2", "7", ".", "0", ".", "0", ".", "1", ":", "8">>

P_bart  == <<"/", "b", "a", "r", "t", "?", "q", "u", "x", "=", "1", "&", "z">>
P_x     == <<"/", "x">>
P_fetch == <<"/", "f", "e", "t", "c", "h", "?", "c", "a", "l", "l", "b", "a", "c", "k",
             "=", "_", "x", "d", "c", "_", ".", "_", "n", "e", "w", "k", "e", "y", "9">>
P_a1    == <<"/", "a", "?", "v", "=", "1">>
P_a2    == <<"/", "a", "?", "v", "=", "2">>
P_a     == <<"/", "a">>
P_a3    == <<"/", "a", "?", "v", "=", "3">>
P_ech   == <<"/", "p", "?", "x", "=", "1", "&", "e", "c", "h", "=", "2", "&", "p", "s", "i", "=", "b">>
P_ech3  == <<"/", "p", "?", "x", "=", "1", "&", "e", "c", "h", "=", "3", "&", "p", "s", "i", "=", "c">>
P_p     == <<"/", "p">>

\* (.*\.)?foo.com/bar.*(qux=1&).*      the pattern of the comment at httpproxy.py:96
Re_edit == <<"(", ".", "*", "\\", ".", ")", "?", "f", "o", "o", ".", "c", "o", "m", "/",
             "b", "a", "r", ".", "*", "(", "q", "u", "x", "=", "1", "&", ")", ".", "*">>
\* evil\.com/.*
Re_evil == <<"e", "v", "i", "l", "\\", ".", "c", "o", "m", "/", ".", "*">>
\* /a        (removeHeader)
Re_a == <<"/", "a">>
\* example.com/fetch       the prefix of the isFetchPath rule
T_fetch == <<"e", "x", "a", "m", "p", "l", "e", ".", "c", "o", "m", "/", "f", "e", "t", "c", "h">>
\* ?callback=_xdc_._   and   \?callback=_xdc_._     its suffixes
T_cb     == <<"?", "c", "a", "l", "l", "b", "a", "c", "k", "=", "_", "x", "d", "c", "_", ".", "_">>
T_cb_esc == <<"\\", "?", "c", "a", "l", "l", "b", "a", "c", "k", "=", "_", "x", "d", "c", "_", ".", "_">>

B_jsonp == <<"_", "x", "d", "c", "_", ".", "_", "a", "b", "c", "1", "2", "3", "x", "y", "z",
             "(", "1", ")">>
B_ech   == <<"x", "&", "e", "c", "h", "=", "1", "&", "p", "s", "i", "=", "a">>
B_head  == <<"<", "h", "e", "a", "d", ">">>
B_AB    == <<"A", "B">>
B_CDEF  == <<"C", "D", "E", "F">>
B_ok    == <<"o", "k">>

\* ------------------------------------------------------------------------
\* Rules and their compilation
\* ------------------------------------------------------------------------

\* The rule list given to the server and to the fetcher: 4-tuples
\* (predicate, predicate_args, action, action_args).
Rules == <<
  [predicate |-> "urlMatches",  args |-> <<Re_evil>>, action |-> "sendStatus",
   values |-> <<503>>],
  [predicate |-> "urlMatches",  args |-> <<Re_edit>>, action |-> "removeGroupsFromURL",
   values |-> <<>>],
  [predicate |-> "urlMatches",  args |-> <<Re_a>>,    action |-> "removeHeader",
   values |-> <<<<"c", "o", "o", "k", "i", "e">>>>],
  [predicate |-> "isFetchPath", args |-> T_fetch,     action |-> "replaceCallback",
   values |-> <<T_cb, T_cb_esc>>],
  [predicate |-> "isFetchPath", args |-> <<P_p>>,     action |-> "ignorePath",
   values |-> <<>>] >>

\* The rules of one predicate and action among the rules rs, in list order.
RulesIn(rs, predicate, action) ==
  SelectSeq(rs, LAMBDA r : r.predicate = predicate /\ r.action = action)

RulesOf(predicate, action) == RulesIn(Rules, predicate, action)

\* HttpProxyServer.parse_rules: error_paths, as (compiled regex, status) pairs
RECURSIVE ErrorPathsOf(_)
ErrorPathsOf(rs) ==
  IF Len(rs) = 0 THEN {}
  ELSE {<<Compile(rs[1].args[k]), rs[1].values[1]>> : k \in 1..Len(rs[1].args)}
       \cup ErrorPathsOf(Tail(rs))

error_paths == ErrorPathsOf(RulesOf("urlMatches", "sendStatus"))

\* HttpProxyServer.parse_rules: paths_to_edit, the compiled regexes in the
\* order in which the handler's loop visits them
RECURSIVE PathsToEditOf(_)
PathsToEditOf(rs) ==
  IF Len(rs) = 0 THEN <<>>
  ELSE [k \in 1..Len(rs[1].args) |-> Compile(rs[1].args[k])] \o PathsToEditOf(Tail(rs))

paths_to_edit == PathsToEditOf(RulesOf("urlMatches", "removeGroupsFromURL"))

\* HttpProxyServer.parse_rules: undesirable_headers, a dict url -> header name
\* (a later rule for the same url replaces the earlier one)
RECURSIVE UndesirableOf(_, _)
UndesirableOf(rs, acc) ==
  IF Len(rs) = 0 THEN acc
  ELSE UndesirableOf(Tail(rs),
         {e \in acc : \A k \in 1..Len(rs[1].args) : e[1] # rs[1].args[k]}
         \cup {<<rs[1].args[k], rs[1].values[1]>> : k \in 1..Len(rs[1].args)})

undesirable_headers == UndesirableOf(RulesOf("urlMatches", "removeHeader"), {})

\* ControllableHttpArchiveFetch.parse_rules: callback_paths, each the text
\* '%s%s' % (paths, value), later used as a regular expression
RECURSIVE CallbackPathsOf(_)
CallbackPathsOf(rs) ==
  IF Len(rs) = 0 THEN {}
  ELSE {rs[1].args \o rs[1].values[k] : k \in 1..Len(rs[1].values)}
       \cup CallbackPathsOf(Tail(rs))

callback_paths == CallbackPathsOf(RulesOf("isFetchPath", "replaceCallback"))

\* ControllableHttpArchiveFetch.parse_rules: ignore_paths
RECURSIVE IgnorePathsOf(_)
IgnorePathsOf(rs) ==
  IF Len(rs) = 0 THEN {}
  ELSE {rs[1].args[k] : k \in 1..Len(rs[1].args)} \cup IgnorePathsOf(Tail(rs))

ignore_paths == IgnorePathsOf(RulesOf("isFetchPath", "ignorePath"))

\* re.search(r'(^|[^\\])\([^\((\\()]?\(', url): an opening parenthesis that no
\* backslash precedes, then at most one character that is none of ( \ ), then
\* an opening parenthesis.
NestedGroupFound(url) ==
  \E i \in 1..Len(url) :
    /\ url[i] = "("
    /\ i = 1 \/ url[i - 1] # "\\"
    /\ \/ i + 1 <= Len(url) /\ url[i + 1] = "("
       \/ /\ i + 2 <= Len(url)
          /\ url[i + 1] \notin {"(", "\\", ")"}
          /\ url[i + 2] = "("

\* The urls for which parse_rules raises ValueError (line 335).
InvalidPaths(rs) ==
  LET edits == RulesIn(rs, "urlMatches", "removeGroupsFromURL")
  IN  {url \in UNION {{edits[n].args[k] : k \in 1..Len(edits[n].args)} :
                       n \in 1..Len(edits)} :
         NestedGroupFound(url)}

\* The orders in which the elements of a set() can be visited: paths_to_edit
\* holds each compiled regex once, and its iteration order is not the order
\* of the rules.
RECURSIVE OrdersOf(_)
OrdersOf(S) ==
  IF S = {} THEN {<<>>}
  ELSE UNION {{<<e>> \o order : order \in OrdersOf(S \ {e})} : e \in S}

Orders(paths) == OrdersOf({paths[k] : k \in 1..Len(paths)})

\* A server object before parse_rules has run.
Unparsed(rs) ==
  [rules |-> rs, parsed |-> FALSE, raised |-> FALSE, error_paths |-> {},
   paths_to_edit |-> <<>>, undesirable_headers |-> {}]

\* HttpProxyServer.parse_rules(rules), with order the order in which
\* paths_to_edit will be visited; raised when it raises ValueError.
ParseRules(rs, order) ==
  [rules |-> rs, parsed |-> TRUE, raised |-> InvalidPaths(rs) # {},
   error_paths |-> ErrorPathsOf(RulesIn(rs, "urlMatches", "sendStatus")),
   paths_to_edit |-> order,
   undesirable_headers |-> UndesirableOf(RulesIn(rs, "urlMatches", "removeHeader"), {})]

\* ------------------------------------------------------------------------
\* Request normalisation (HttpArchiveHandler.get_archived_http_request)
\* ------------------------------------------------------------------------

\* headers.get(name): the value of the first header of that name, <<>> for None
HeaderIndex(headers, name) ==
  IF \E k \in 1..Len(headers) : headers[k][1] = name
    THEN CHOOSE k \in 1..Len(headers) :
           headers[k][1] = name /\ \A m \in 1..(k - 1) : headers[m][1] # name
    ELSE 0

HasHeader(headers, name) == HeaderIndex(headers, name) # 0

GetHeader(headers, name) ==
  IF HasHeader(headers, name) THEN headers[HeaderIndex(headers, name)][2] ELSE <<>>

\* urlparse.urlparse of an origin-form request target
UrlParse(url) ==
  LET h  == Find(url, <<"#">>, 0)
      u1 == IF h < 0 THEN url ELSE SubSeq(url, 1, h)
      q  == Find(u1, <<"?">>, 0)
      u2 == IF q < 0 THEN u1 ELSE SubSeq(u1, 1, q)
      s  == RFind(u2, <<"/">>)
      p  == Find(u2, <<";">>, IF s < 0 THEN 0 ELSE s)
  IN  [path     |-> IF p < 0 THEN u2 ELSE SubSeq(u2, 1, p),
       params   |-> IF p < 0 THEN <<>> ELSE PyFrom(u2, p + 1),
       query    |-> IF q < 0 THEN <<>> ELSE PyFrom(u1, q + 1),
       fragment |-> IF h < 0 THEN <<>> ELSE PyFrom(url, h + 1)]

\* full_path = path [;params] [?query] [#fragment]
FullPath(url) ==
  LET parsed == UrlParse(url)
  IN  parsed.path
      \o (IF Len(parsed.params) > 0 THEN <<";">> \o parsed.params ELSE <<>>)
      \o (IF Len(parsed.query) > 0 THEN <<"?">> \o parsed.query ELSE <<>>)
      \o (IF Len(parsed.fragment) > 0 THEN <<"#">> \o parsed.fragment ELSE <<>>)

\* The inner loop over the groups 1..lastindex of one match: the text kept so
\* far and the offset from which the next piece is taken, both taken from
\* repr_path although the spans are offsets into host + repr_path.
RECURSIVE EraseGroups(_, _, _, _, _)
EraseGroups(repr_path, groups, i, start_include, new_path) ==
  IF i > groups.lastindex THEN new_path \o PyFrom(repr_path, start_include)
  ELSE EraseGroups(repr_path, groups, i + 1, groups.span[i][2],
                   new_path \o PySlice(repr_path, start_include, groups.span[i][1]))

\* The loop over paths_to_edit: every pattern that matches host + repr_path
\* rewrites repr_path, one after the other.
RECURSIVE EditPath(_, _, _)
EditPath(host, repr_path, paths) ==
  IF Len(paths) = 0 THEN repr_path
  ELSE LET groups == ReMatch(paths[1], host \o repr_path)
       IN  EditPath(host,
                    IF groups.ok THEN EraseGroups(repr_path, groups, 1, 0, <<>>)
                    ELSE repr_path,
                    Tail(paths))

\* exclude_headers: the header names of the undesirable_headers entries whose
\* regex matches parsed.path
ExcludeHeadersOf(undesirable, path) ==
  {e[2] : e \in {u \in undesirable : ReMatch(Compile(u[1]), path).ok}}

ExcludeHeaders(path) == ExcludeHeadersOf(undesirable_headers, path)

\* The statuses of the error_paths entries that match host + full_path
ErrorStatusesOf(paths, host, full_path) ==
  {e[2] : e \in {p \in paths : ReMatch(p[1], host \o full_path).ok}}

ErrorStatuses(host, full_path) == ErrorStatusesOf(error_paths, host, full_path)


\* ------------------------------------------------------------------------
\* Archived responses (httparchive.ArchivedHttpResponse)
\* ------------------------------------------------------------------------

T_chunked == <<"c", "h", "u", "n", "k", "e", "d">>
T_html    == <<"t", "e", "x", "t", "/", "h", "t", "m", "l">>
T_plain   == <<"t", "e", "x", "t", "/", "p", "l", "a", "i", "n">>
T_js      == <<"t", "e", "x", "t", "/", "j", "s">>
T_image   == <<"i", "m", "a", "g", "e", "/">>
T_png     == <<"i", "m", "a", "g", "e", "/", "p", "n", "g">>

NoResponse ==
  [version |-> 0, status |-> 0, headers |-> <<>>, response_data |-> <<>>,
   delays |-> [connect |-> 0, headers |-> 0, data |-> <<>>]]

\* response.is_chunked()
IsChunked(response) == GetHeader(response.headers, "transfer-encoding") = T_chunked

\* response.set_header(name, value): replaces the header or appends it
SetHeader(headers, name, value) ==
  IF HasHeader(headers, name)
    THEN [headers EXCEPT ![HeaderIndex(headers, name)] = <<name, value>>]
    ELSE Append(headers, <<name, value>>)

\* The boundary between two chunks in the text form of a body.
CHUNK_EDIT_SEPARATOR == "|"

\* response.get_response_as_text(), response.get_data_as_text()
GetText(response) == Join(response.response_data, CHUNK_EDIT_SEPARATOR)

\* response.set_response_from_text(text), response.set_data(text): the chunks
\* of the text; a response that is not chunked gets its content-length reset
SetText(response, text) ==
  LET data == Split(text, CHUNK_EDIT_SEPARATOR)
  IN  [response EXCEPT
         !.response_data = data,
         !.headers = IF IsChunked(response) THEN @
                     ELSE SetHeader(@, "content-length", DecStr(SumLen(data)))]

\* httparchive.create_response(status): the synthetic response of send_error
CreateResponse(status) ==
  [version |-> 11, status |-> status,
   headers |-> <<<<"content-type", T_plain>>>>,
   response_data |-> <<DecStr(status)>>,
   delays |-> [connect |-> 0, headers |-> 0, data |-> <<0>>]]

\* ------------------------------------------------------------------------
\* Response mutation (httpclient.mutate_response, _InjectScripts,
\* _ScrambleImages).  A mutation yields [raised, changed, response]: raised
\* when the Python code raises, changed when it wrote to the response.
\* ------------------------------------------------------------------------

T_callback == <<"c", "a", "l", "l", "b", "a", "c", "k", "=", "_", "x", "d", "c", "_", ".", "_">>
\* _xdc_._(.{9})
Re_xdc == <<"_", "x", "d", "c", "_", ".", "_", "(", ".", ".", ".", ".", ".", ".", ".", ".", ".", ")">>
\* ech=\d+
Re_ech == <<"e", "c", "h", "=", "\\", "d", "+">>
T_ech == <<"e", "c", "h", "=">>
T_psi == <<"p", "s", "i", "=">>
\* psi=[A-Za-z0-9_\.]+
Re_psi_compiled == Compile(T_psi) \o <<[NoItem EXCEPT !.t = "token", !.q = "+"]>>

Raised(response) == [raised |-> TRUE, changed |-> FALSE, response |-> response]
Kept(response) == [raised |-> FALSE, changed |-> FALSE, response |-> response]
Written(response) == [raised |-> FALSE, changed |-> TRUE, response |-> response]

\* The body of the loop over callback_paths for one matching path.  isNone:
\* the response is None.
ReplaceCallback(full_path, isNone, response) ==
  LET at == RFind(full_path, T_callback)
      resp_text == GetText(response)
      found == ReSearch(Compile(Re_xdc), resp_text)
  IN  IF at < 0 \/ isNone \/ ~found.ok THEN Raised(response)
      ELSE LET newkey == PyFrom(full_path, at + Len(T_callback))
               oldkey == PySlice(resp_text, found.span[1][1], found.span[1][2])
           IN  Written(SetText(response, Replace(resp_text, oldkey, newkey)))

\* The last part of parts that starts with prefix and is not taken by the
\* branch before it (taken = its prefix); <<>> and found = FALSE for None.
RECURSIVE QueryPart(_, _, _, _)
QueryPart(parts, prefix, taken, acc) ==
  IF Len(parts) = 0 THEN acc
  ELSE QueryPart(Tail(parts), prefix, taken,
         IF StartsWith(parts[1], prefix) /\ ~(Len(taken) > 0 /\ StartsWith(parts[1], taken))
           THEN [found |-> TRUE, part |-> parts[1]]
           ELSE acc)

\* The ech/psi echo of mutate_response.
EchoEchPsi(full_path, isNone, response) ==
  LET resp_text == GetText(response)
      query_parts == Split(full_path, "&")
      ech_part == QueryPart(query_parts, T_ech, <<>>, [found |-> FALSE, part |-> <<>>])
      psi_part == QueryPart(query_parts, T_psi, T_ech, [found |-> FALSE, part |-> <<>>])
      old_ech == ReSearch(Compile(Re_ech), resp_text)
      old_psi == ReSearch(Re_psi_compiled, resp_text)
  IN  IF isNone \/ ~old_ech.ok \/ ~old_psi.ok \/ ~ech_part.found \/ ~psi_part.found
        THEN Raised(response)
        ELSE LET replaced1 == Replace(resp_text, PySlice(resp_text, old_ech.start, old_ech.end),
                                      ech_part.part)
                 replaced2 == Replace(replaced1, PySlice(resp_text, old_psi.start, old_psi.end),
                                      psi_part.part)
             IN  Written(SetText(response, replaced2))

\* The callback paths in the order the loop visits them.
RECURSIVE SetToSeq(_)
SetToSeq(S) ==
  IF S = {} THEN <<>>
  ELSE LET e == CHOOSE e \in S : TRUE IN <<e>> \o SetToSeq(S \ {e})

\* re.match(r'%s' % callback_path, '%s%s' % (request.host, request.full_path))
CallbackFires(callback_path, request) ==
  ReMatch(Compile(callback_path), request.host \o request.full_path).ok

RECURSIVE CallbackLoop(_, _, _, _)
CallbackLoop(paths, request, isNone, m) ==
  IF Len(paths) = 0 \/ m.raised THEN m
  ELSE CallbackLoop(Tail(paths), request, isNone,
         IF CallbackFires(paths[1], request)
           THEN LET r == ReplaceCallback(request.full_path, isNone, m.response)
                IN  [r EXCEPT !.changed = @ \/ m.changed]
           ELSE m)

\* mutate_response(request, response, callback_paths, ignore_paths): writes to
\* the response object it is given, and returns nothing.
MutateResponse(request, isNone, response) ==
  LET m == CallbackLoop(SetToSeq(callback_paths), request, isNone, Kept(response))
  IN  IF m.raised \/ request.path \notin ignore_paths THEN m
      ELSE LET r == EchoEchPsi(request.full_path, isNone, m.response)
           IN  [r EXCEPT !.changed = @ \/ m.changed]

\* The script given by --inject_scripts.
T_script == <<"<", "s", ">">>
T_head_tag == <<"<", "h", "e", "a", "d", ">">>
T_html_tag == <<"<", "h", "t", "m", "l", ">">>

\* script_injector.InjectScript(text, 'text/html', script): after <head>, else
\* after <html>; already_injected when the script is in the text
InjectScript(text) ==
  LET h == Find(text, T_head_tag, 0)
      m == Find(text, T_html_tag, 0)
      after == IF h >= 0 THEN h + Len(T_head_tag)
               ELSE IF m >= 0 THEN m + Len(T_html_tag) ELSE 0
  IN  IF Len(text) = 0 \/ Find(text, T_script, 0) >= 0
        THEN [text |-> text, already_injected |-> TRUE]
        ELSE [text |-> SubSeq(text, 1, after) \o T_script \o PyFrom(text, after),
              already_injected |-> FALSE]

\* _InjectScripts(response, inject_script): copied |-> the result is a deep
\* copy of the response, not the response object itself
InjectScripts(response) ==
  LET inj == InjectScript(GetText(response))
  IN  IF StartsWith(GetHeader(response.headers, "content-type"), T_html)
         /\ ~inj.already_injected
        THEN [copied |-> TRUE, response |-> SetText(response, inj.text)]
        ELSE [copied |-> FALSE, response |-> response]

\* reversed(s): one outcome of shuffling the pixels
RECURSIVE Reverse(_)
Reverse(s) == IF Len(s) = 0 THEN <<>> ELSE Reverse(Tail(s)) \o <<s[1]>>

\* _ScrambleImages(response); decoded: the image library could read the data
ScrambleImages(response, decoded) ==
  IF StartsWith(GetHeader(response.headers, "content-type"), T_image) /\ decoded
     /\ Len(response.response_data) > 0
    THEN [copied |-> TRUE, response |-> SetText(response, Reverse(response.response_data[1]))]
    ELSE [copied |-> FALSE, response |-> response]

\* ------------------------------------------------------------------------
\* The origin servers and the fetch of one response (RealHttpFetch,
\* DetailedHTTPResponse.read_chunks)
\* ------------------------------------------------------------------------

EndsWith(s, p) == Len(p) <= Len(s) /\ SubSeq(s, Len(s) - Len(p) + 1, Len(s)) = p

P_img == <<"/", "i">>
B_px  == <<"p", "x">>

\* The chunked body the origin sends for the chunks AB and CDEF
W_AB_CDEF == <<"2", "\r", "\n", "A", "B", "\r", "\n",
               "4", "\r", "\n", "C", "D", "E", "F", "\r", "\n",
               "0", "\r", "\n", "\r", "\n">>

\* The chunked body the origin sends for the one chunk 0123456789, with the
\* size in upper case
B_ten == <<"0", "1", "2", "3", "4", "5", "6", "7", "8", "9">>
W_ten == <<"A", "\r", "\n">> \o B_ten \o <<"\r", "\n", "0", "\r", "\n", "\r", "\n">>

\* The chunked body the origin sends for the one chunk AB, with a chunk
\* extension after the size
W_ext == <<"2", ";", "x", "\r", "\n", "A", "B", "\r", "\n", "0", "\r", "\n", "\r", "\n">>

\* What the origin of a request sends: status line, headers, and the body as
\* the text on the wire (body); for a chunked body also the chunks the
\* origin made it of and the time in ms before each (gaps).
OriginReply(request) ==
  LET base == [version |-> 11, status |-> 200, headers |-> <<>>, chunked |-> FALSE,
               body |-> <<>>, chunks |-> <<>>, gaps |-> <<>>, connect_ms |-> 3,
               headers_ms |-> 20]
  IN  IF EndsWith(request.host, H_foo)
        THEN [base EXCEPT !.headers = <<<<"content-type", T_html>>,
                                        <<"content-length", DecStr(Len(B_head))>>>>,
                          !.body = B_head]
      ELSE IF request.host = H_local
        THEN [base EXCEPT !.headers = <<<<"content-length", DecStr(Len(B_ok))>>>>,
                          !.body = B_ok]
      ELSE IF StartsWith(request.full_path, <<"/", "f">>)
        THEN [base EXCEPT !.version = 10,
                          !.headers = <<<<"content-type", T_js>>>>,
                          !.body = B_jsonp]
      ELSE IF StartsWith(request.full_path, P_p)
        THEN [base EXCEPT !.headers = <<<<"content-type", T_plain>>,
                                        <<"content-length", DecStr(Len(B_ech))>>>>,
                          !.body = B_ech]
      ELSE IF StartsWith(request.full_path, P_img)
        THEN [base EXCEPT !.headers = <<<<"content-type", T_png>>,
                                        <<"content-length", DecStr(Len(B_px))>>>>,
                          !.body = B_px]
      ELSE IF request.command = "HEAD"
        THEN [base EXCEPT !.headers = <<<<"content-type", T_plain>>,
                                        <<"content-length", DecStr(Len(B_AB \o B_CDEF))>>>>]
      ELSE IF request.full_path = P_a2
        THEN [base EXCEPT !.headers = <<<<"transfer-encoding", T_chunked>>>>,
                          !.chunked = TRUE,
                          !.body = W_ten,
                          !.chunks = <<B_ten>>,
                          !.gaps = <<1000>>]
      ELSE IF request.full_path = P_a3
        THEN [base EXCEPT !.headers = <<<<"transfer-encoding", T_chunked>>>>,
                          !.chunked = TRUE,
                          !.body = W_ext,
                          !.chunks = <<B_AB>>,
                          !.gaps = <<0>>]
      ELSE [base EXCEPT !.headers = <<<<"transfer-encoding", T_chunked>>>>,
                        !.chunked = TRUE,
                        !.body = W_AB_CDEF,
                        !.chunks = <<B_AB, B_CDEF>>,
                        !.gaps = <<0, 2000>>]

\* TIMER() - start for an interval of ms milliseconds: TIMER counts seconds
\* (the intervals of the model are whole seconds).
TimerDiff(ms) == ms \div 1000

\* _read_chunk_size(line): the size, -1 for None; raised for the NameError
\* of line 165 (chunk_extention_pos is no name of the function).
ReadChunkSize(line) ==
  IF Find(line, <<";">>, 0) # -1 THEN [raised |-> TRUE, size |-> -1]
  ELSE [raised |-> FALSE, size |-> ParseHex(line)]

\* The loop of read_chunks over a chunked body, from 0-based offset pos of
\* the text the origin sends; raised names the exception that ends it.
RECURSIVE ReadChunked(_, _, _, _, _)
ReadChunked(text, pos, gaps, chunks, delays) ==
  LET line == ReadLine(text, pos)
      chunk_size == ReadChunkSize(line)
      at == pos + Len(line)
      k == Len(chunks) + 1
  IN  IF chunk_size.raised
        THEN [chunks |-> chunks, delays |-> delays, raised |-> "NameError"]
      ELSE IF chunk_size.size < 0 \/ at + chunk_size.size + 2 > Len(text)
        THEN [chunks |-> chunks, delays |-> delays, raised |-> "IncompleteRead"]
      ELSE IF chunk_size.size = 0
        THEN [chunks |-> chunks, delays |-> delays, raised |-> "none"]
      ELSE ReadChunked(text, at + chunk_size.size + 2, gaps,
                       Append(chunks, PySlice(text, at, at + chunk_size.size)),
                       Append(delays, TimerDiff(IF k <= Len(gaps) THEN gaps[k] ELSE 0)))

\* read_chunks that keeps no chunk boundaries: the chunked body is returned
\* as one chunk.
ReadChunksJoined(reply, command) ==
  IF ~reply.chunked
    THEN [chunks |-> <<IF command = "HEAD" THEN <<>> ELSE reply.body>>, delays |-> <<0>>,
          raised |-> "none"]
    ELSE LET read == ReadChunked(reply.body, 0, reply.gaps, <<>>, <<>>)
         IN  [read EXCEPT !.chunks = <<Concat(@)>>, !.delays = <<0>>]

\* read_chunks without the delays.append(0) of line 137: a body that is not
\* chunked comes with no delay.
ReadChunksUndelayed(reply, command) ==
  IF ~reply.chunked
    THEN [chunks |-> <<IF command = "HEAD" THEN <<>> ELSE reply.body>>, delays |-> <<>>,
          raised |-> "none"]
    ELSE ReadChunked(reply.body, 0, reply.gaps, <<>>, <<>>)

\* response.read_chunks(): (chunks, delays).  A response to HEAD has no body
\* to read.
ReadChunks(reply, command) ==
  IF ~reply.chunked
    THEN [chunks |-> <<IF command = "HEAD" THEN <<>> ELSE reply.body>>, delays |-> <<0>>,
          raised |-> "none"]
    ELSE ReadChunked(reply.body, 0, reply.gaps, <<>>, <<>>)

\* One attempt of RealHttpFetch.__call__ that raises nothing: the
\* ArchivedHttpResponse it builds.
FetchedResponse(request) ==
  LET reply == OriginReply(request)
      read == ReadChunks(reply, request.command)
  IN  [version |-> reply.version, status |-> reply.status, headers |-> reply.headers,
       response_data |-> read.chunks,
       delays |-> [connect |-> reply.connect_ms, headers |-> reply.headers_ms,
                   data |-> read.delays]]

\* response.read_chunks() of line 329 raises: the exception is caught by the
\* except clause of line 344 like one of the connection.
FetchRaises(request) ==
  ReadChunks(OriginReply(request), request.command).raised # "none"

\* _get_connection without its test of is_ssl.
GetConnectionPlain(ssl) == "DetailedHTTPConnection"

\* The connection object _get_connection returns once the host has an ip
\* (lines 294-299).
GetConnection(ssl) ==
  IF ssl THEN "DetailedHTTPSConnection" ELSE "DetailedHTTPConnection"

\* How an attempt can end: "ok" when the connection delivers the reply of the
\* origin, or the exception the connection raises.
Outcomes == {"ok", "no_ip", "connect_failed", "protocol_error", "premature_eof"}

\* retries = 3
Retries == 3

\* ------------------------------------------------------------------------
\* Client requests
\* ------------------------------------------------------------------------

\* len(self.raw_requestline) > 65536
MaxRequestLine == 65536

WireRequest(command, host, path) ==
  [linelen |-> Len(path) + 14, parses |-> TRUE, command |-> command,
   headers |-> <<<<"host", host>>>>, path |-> path, body |-> <<>>]

\* a=1 and a line end: the body of the POST requests
B_form == <<"a", "=", "1", "\n">>

\* The request w sent as a POST with a body and its content-length header.
WithBody(w, body) ==
  [w EXCEPT !.command = "POST", !.body = body,
            !.headers = Append(@, <<"content-length", DecStr(Len(body))>>)]

\* The body a=1 and a line end as the chunks of a chunked request: 4 CRLF,
\* the four bytes, CRLF, and the final chunk
W_form == <<"4", "\r", "\n">> \o B_form \o <<"\r", "\n", "0", "\r", "\n", "\r", "\n">>

\* The request w sent as a POST with transfer-encoding: chunked and the chunks
\* wire as its body.
WithChunkedBody(w, wire) ==
  [w EXCEPT !.command = "POST", !.body = wire,
            !.headers = Append(@, <<"transfer-encoding", T_chunked>>)]

WireRequests ==
  { WireRequest("GET", H_abc_foo, P_bart),
    WireRequest("GET", H_xy_foo, P_bart),
    WireRequest("GET", H_foo, P_bart),
    WireRequest("GET", H_evil, P_x),
    WithBody(WireRequest("GET", H_evil, P_x), B_form),
    WithBody(WireRequest("GET", H_example, P_a1), B_form),
    WithChunkedBody(WireRequest("GET", H_example, P_a1), W_form),
    WireRequest("GET", H_example, P_fetch),
    WireRequest("GET", H_example, P_a1),
    WireRequest("GET", H_example, P_a2),
    WireRequest("GET", H_example, P_a3),
    WireRequest("HEAD", H_example, P_a1),
    WireRequest("GET", H_example, P_ech),
    WireRequest("GET", H_example, P_ech3),
    WireRequest("GET", H_example, P_img),
    WireRequest("GET", H_local, P_a),
    [WireRequest("GET", H_example, P_a) EXCEPT !.headers = <<>>],
    [WireRequest("GET", H_example, P_a) EXCEPT !.linelen = MaxRequestLine + 1],
    [WireRequest("GET", H_example, P_a) EXCEPT !.parses = FALSE] }

\* No request line has been read.
NoWire == [WireRequest("", <<>>, <<>>) EXCEPT !.linelen = 0, !.parses = FALSE, !.headers = <<>>]

\* The request_body None.
NoBody == [none |-> TRUE, data |-> <<>>]

NoRequest ==
  [command |-> "", host |-> <<>>, full_path |-> <<>>, repr_path |-> <<>>, path |-> <<>>,
   exclude_headers |-> {}, is_ssl |-> FALSE, request_body |-> NoBody]

\* int(self.headers.get('content-length', 0)) or None, with 0 for None
ContentLength(w) == ParseInt(GetHeader(w.headers, "content-length"))

\* read_request_body(): self.rfile.read(length) when the content-length is
\* not 0, else None.
ReadRequestBody(w) ==
  IF ContentLength(w) # 0
    THEN [none |-> FALSE, data |-> PySlice(w.body, 0, ContentLength(w))]
    ELSE NoBody

\* HttpProxyServer.is_ssl: True iff the requests of this server are fetched
\* over SSL
VARIABLE is_ssl

\* The HttpProxyServer object: the rules it is constructed with and what
\* parse_rules makes of them
VARIABLE server

\* The ArchivedHttpRequest get_archived_http_request builds (lines 88-115 and
\* 124-132) for a request that has a host header.
RequestWith(paths, undesirable, w) ==
  LET host == GetHeader(w.headers, "host")
      full_path == FullPath(w.path)
  IN  [command |-> w.command, host |-> host, full_path |-> full_path,
       repr_path |-> EditPath(host, full_path, paths),
       path |-> UrlParse(w.path).path,
       exclude_headers |-> ExcludeHeadersOf(undesirable, UrlParse(w.path).path),
       is_ssl |-> is_ssl,
       request_body |-> ReadRequestBody(w)]

\* The request a server with the rules of the model builds.
ArchivedRequest(w) == RequestWith(paths_to_edit, undesirable_headers, w)

\* What two ArchivedHttpRequests must agree on to be the same archive key.
Key(request) ==
  [command |-> request.command, host |-> request.host, repr_path |-> request.repr_path,
   is_ssl |-> request.is_ssl]

NoKey == Key(NoRequest)

\* ------------------------------------------------------------------------
\* State
\* ------------------------------------------------------------------------

Conns == {1, 2}

\* The connections that carry requests in Spec.
SerialConns == {1}

\* The number of requests the clients send.
MaxRequests == 2

VARIABLES
  fetch,               \* ControllableHttpArchiveFetch.fetch: "record" or "replay"
  is_record_mode,      \* ControllableHttpArchiveFetch.is_record_mode
  archive,             \* http_archive: archive key -> response
  use_delays,          \* HttpProxyServer.use_delays
  use_closest_match,   \* ReplayHttpArchiveFetch.use_closest_match
  inject_script,       \* whether an inject_script is configured
  scramble_images,     \* ReplayHttpArchiveFetch.scramble_images
  num_active_requests, \* HttpProxyServer.num_active_requests
  pc,                  \* per connection: where its handler is
  request,             \* per connection: the ArchivedHttpRequest of the handler
  response,            \* per connection: the response object the handler holds
  retries,             \* per connection: retries of RealHttpFetch.__call__
  close_connection,    \* per connection: the handler's close_connection
  protocol_version,    \* per connection: the handler's protocol_version
  out,                 \* per connection: what was written to the client
  fetcher,             \* per connection: the fetcher the request was forwarded to
  invoked,             \* per connection: the collaborators called for the request
  fetched,             \* per connection: what RealHttpFetch returned
  failures,            \* per connection: attempts of the fetch that raised
  recorded,            \* archive key -> the response as it was stored
  handled,             \* requests read so far
  delay_ms,            \* HttpProxyServer.traffic_shaping_delay_ms
  unread,              \* per connection: bytes of a request left in rfile
  stray,               \* per connection: the unread bytes the handler took for a request line
  raw,                 \* per connection: the request whose line the handler has read
  reg,                 \* per connection: the num_active_requests a thread has loaded
  cert_cache,          \* CertCache: SNI hostname -> leaf certificate
  cert_lock,           \* the connection that holds the write lock of the CertCache, or 0
  handshake,           \* per connection: where its TLS handshake is
  minted               \* hostname -> leaf certificates generated for it so far

vars == <<fetch, is_record_mode, archive, use_delays, use_closest_match, inject_script,
          scramble_images, num_active_requests, pc, request, response, retries,
          close_connection, protocol_version, out, fetcher, invoked, fetched, failures,
          recorded, handled, delay_ms, unread, stray, raw, reg, is_ssl, server,
          cert_cache, cert_lock, handshake, minted>>

\* The state of the TLS listener.
tls == <<cert_cache, cert_lock, handshake, minted>>

config == <<use_delays, use_closest_match, inject_script, scramble_images, is_ssl, server,
            tls>>

\* A response object a handler holds: the object stored in the archive under
\* key ("arch"), an object of its own ("own"), or None ("none").
NoHolder == [kind |-> "none", key |-> NoKey, val |-> NoResponse]
Own(val) == [kind |-> "own", key |-> NoKey, val |-> val]
Arch(key) == [kind |-> "arch", key |-> key, val |-> NoResponse]

Deref(holder) == IF holder.kind = "arch" THEN archive[holder.key] ELSE holder.val

\* The archive after val is written to the object a holder refers to.
ArchiveWith(holder, val) ==
  IF holder.kind = "arch" THEN [archive EXCEPT ![holder.key] = val] ELSE archive

HolderWith(holder, val) ==
  IF holder.kind = "own" THEN [holder EXCEPT !.val = val] ELSE holder

\* The connections to the TLS listener and the hostnames their clients ask
\* for in the SNI.
TlsConns == {1, 2, 3}
TlsHosts == {H_example, H_abc_foo}

\* The serial numbers a generated leaf certificate may get.
Serials == {1, 2}

NoCert == [commonName |-> <<>>, serial |-> 0]
NoCerts == [h \in {} |-> NoCert]

\* A connection with no handshake in progress; done counts its handshakes.
NoHandshake == [at |-> "idle", host |-> <<>>, cert |-> NoCert, done |-> 0]

\* What a handler has done for the client: kind of the outcome ("response",
\* "partial" for a response whose write failed, or how the read of the
\* request line ended), exc: the exception that reached handle_one_request,
\* raised: handle_one_request was left with it, logged: logging.error of
\* line 189, reflushed: the flush of line 239 sent the rest of the buffer.
NoOut == [kind |-> "none", status |-> 0, version |-> 0, protocol |-> "", headers |-> <<>>,
          body |-> <<>>, wire |-> <<>>, events |-> <<>>, exc |-> "none", raised |-> FALSE,
          logged |-> FALSE, reflushed |-> FALSE]

EmptyArchive == [k \in {} |-> NoResponse]

\* The fetcher, the archive, the counter and the handlers of the connections
\* once the server has started with its options.  BaseHTTPRequestHandler.handle
\* sets close_connection before it reads the first request of a connection.
Started ==
  /\ fetch = IF is_record_mode THEN "record" ELSE "replay"
  /\ archive = EmptyArchive
  /\ num_active_requests = 0
  /\ pc = [c \in Conns |-> "new"]
  /\ request = [c \in Conns |-> NoRequest]
  /\ response = [c \in Conns |-> NoHolder]
  /\ retries = [c \in Conns |-> 0]
  /\ close_connection = [c \in Conns |-> TRUE]
  /\ protocol_version = [c \in Conns |-> "HTTP/1.1"]
  /\ out = [c \in Conns |-> NoOut]
  /\ fetcher = [c \in Conns |-> "none"]
  /\ invoked = [c \in Conns |-> {}]
  /\ fetched = [c \in Conns |-> "none"]
  /\ failures = [c \in Conns |-> 0]
  /\ recorded = EmptyArchive
  /\ handled = 0
  /\ unread = [c \in Conns |-> "none"]
  /\ stray = [c \in Conns |-> "none"]
  /\ raw = [c \in Conns |-> NoWire]
  /\ reg = [c \in Conns |-> 0]
  /\ cert_cache = NoCerts
  /\ cert_lock = 0
  /\ handshake = [c \in TlsConns |-> NoHandshake]
  /\ minted = [h \in TlsHosts |-> 0]

\* The server started without a propagation delay, in either mode and with
\* any of the options of the fetcher.
Init ==
  /\ is_record_mode \in BOOLEAN
  /\ use_delays \in BOOLEAN
  /\ use_closest_match \in BOOLEAN
  /\ inject_script \in BOOLEAN
  /\ scramble_images \in BOOLEAN
  /\ delay_ms = 0
  /\ is_ssl = FALSE
  /\ server = ParseRules(Rules, paths_to_edit)
  /\ Started

\* ------------------------------------------------------------------------
\* ControllableHttpArchiveFetch.SetRecordMode, SetReplayMode
\* ------------------------------------------------------------------------

SetRecordMode ==
  /\ ~is_record_mode
  /\ fetch' = "record"
  /\ is_record_mode' = TRUE
  /\ UNCHANGED <<archive, config, num_active_requests, pc, request, response, retries,
                 close_connection, protocol_version, out, fetcher, invoked, fetched,
                 failures, recorded, handled, delay_ms, unread, stray, raw, reg>>

SetReplayMode ==
  /\ is_record_mode
  /\ fetch' = "replay"
  /\ is_record_mode' = FALSE
  /\ UNCHANGED <<archive, config, num_active_requests, pc, request, response, retries,
                 close_connection, protocol_version, out, fetcher, invoked, fetched,
                 failures, recorded, handled, delay_ms, unread, stray, raw, reg>>

\* ------------------------------------------------------------------------
\* HttpArchiveHandler: reading a request
\* (handle_one_request, do_parse_and_handle_one_request lines 209-230,
\* get_archived_http_request)
\* ------------------------------------------------------------------------

\* get_archived_http_request without its loop over error_paths, and a handler
\* without its early returns: every request goes on to the fetcher.
ShortCircuitNone(w) == {}

\* The statuses with which the request can be answered before any fetch:
\* 414, the 400 of parse_request, 500 without a host header, or the status
\* of a matching error path.  Empty when the request goes on to the fetcher.
ShortCircuit(w) ==
  IF w.linelen > MaxRequestLine THEN {414}
  ELSE IF ~w.parses THEN {400}
  ELSE IF ~HasHeader(w.headers, "host") THEN {500}
  ELSE ErrorStatuses(GetHeader(w.headers, "host"), FullPath(w.path))

\* self.close_connection once the request line of w was looked at: untouched
\* on the 414 path, set by parse_request and cleared by it for a request that
\* parses, while the handler still speaks HTTP/1.1.
ClosesAfter(c, w) ==
  IF w.linelen > MaxRequestLine THEN close_connection[c]
  ELSE IF ~w.parses THEN TRUE
  ELSE protocol_version[c] # "HTTP/1.1"

\* The bytes of w that are still in rfile when its handling returns: the rest
\* of a request whose line was too long or did not parse (readline(65537) has
\* read the line only), the body of a request answered before
\* read_request_body is called, the bytes of a body that read_request_body
\* has not read.
Unread(w) ==
  IF w.linelen > MaxRequestLine \/ ~w.parses THEN "line"
  ELSE IF ShortCircuit(w) # {} /\ ParseInt(GetHeader(w.headers, "content-length")) > 0
    THEN "body"
  ELSE IF ShortCircuit(w) = {} /\ Len(w.body) > Len(ReadRequestBody(w).data) THEN "body"
  ELSE "none"

\* The handler loop reads another line from the connection.
CanRead(c) == pc[c] = "new" \/ (pc[c] = "idle" /\ ~close_connection[c])

\* The line read is the request line of w: the handling up to the fetcher,
\* or up to the response of send_error.
Received(c, w) ==
  /\ IF ShortCircuit(w) = {}
       THEN /\ request' = [request EXCEPT ![c] = ArchivedRequest(w)]
            /\ response' = [response EXCEPT ![c] = NoHolder]
            /\ pc' = [pc EXCEPT ![c] = "handle"]
       ELSE \E status \in ShortCircuit(w) :
            /\ request' = [request EXCEPT ![c] =
                 IF HasHeader(w.headers, "host") /\ w.parses /\ w.linelen <= MaxRequestLine
                   THEN [ArchivedRequest(w) EXCEPT !.command = ""]
                   ELSE NoRequest]
            /\ response' = [response EXCEPT ![c] = Own(CreateResponse(status))]
            /\ pc' = [pc EXCEPT ![c] = "send"]
  /\ close_connection' = [close_connection EXCEPT ![c] = ClosesAfter(c, w)]
  /\ unread' = [unread EXCEPT ![c] = Unread(w)]
  /\ raw' = [raw EXCEPT ![c] = w]
  /\ UNCHANGED <<fetch, is_record_mode, archive, config, retries, protocol_version, out,
                 fetcher, invoked, fetched, failures, recorded, delay_ms, stray>>

ReadRequest(c, w) ==
  /\ CanRead(c)
  /\ unread[c] = "none"
  /\ handled < MaxRequests
  /\ handled' = handled + 1
  /\ num_active_requests' = num_active_requests + 1
  /\ Received(c, w)
  /\ UNCHANGED reg

\* The line read is made of the bytes an earlier request left in rfile (a
\* header line, a body): parse_request sets close_connection and answers 400.
ReadStray(c) ==
  /\ CanRead(c)
  /\ unread[c] # "none"
  /\ num_active_requests' = num_active_requests + 1
  /\ stray' = [stray EXCEPT ![c] = unread[c]]
  /\ raw' = [raw EXCEPT ![c] = NoWire]
  /\ unread' = [unread EXCEPT ![c] = "none"]
  /\ request' = [request EXCEPT ![c] = NoRequest]
  /\ response' = [response EXCEPT ![c] = Own(CreateResponse(400))]
  /\ close_connection' = [close_connection EXCEPT ![c] = TRUE]
  /\ pc' = [pc EXCEPT ![c] = "send"]
  /\ UNCHANGED <<fetch, is_record_mode, archive, config, retries, protocol_version, out,
                 fetcher, invoked, fetched, failures, recorded, handled, delay_ms, reg>>

\* A new connection is accepted in place of one that was closed.
NewConnection(c) ==
  /\ pc[c] = "idle"
  /\ close_connection[c]
  /\ pc' = [pc EXCEPT ![c] = "new"]
  /\ protocol_version' = [protocol_version EXCEPT ![c] = "HTTP/1.1"]
  /\ unread' = [unread EXCEPT ![c] = "none"]
  /\ UNCHANGED <<fetch, is_record_mode, archive, config, num_active_requests, request,
                 response, retries, close_connection, out, fetcher, invoked, fetched,
                 failures, recorded, handled, delay_ms, stray, raw, reg>>

\* ------------------------------------------------------------------------
\* HttpArchiveHandler: custom handlers and the fetcher
\* (do_parse_and_handle_one_request lines 231-237, RecordHttpArchiveFetch,
\* ReplayHttpArchiveFetch)
\* ------------------------------------------------------------------------

\* An exception leaves do_parse_and_handle_one_request and handle_one_request:
\* the finally clauses run, nothing is written, the connection is torn down.
Raise(c, newArchive) ==
  /\ archive' = newArchive
  /\ pc' = [pc EXCEPT ![c] = "done"]
  /\ response' = [response EXCEPT ![c] = NoHolder]
  /\ out' = [out EXCEPT ![c] = [NoOut EXCEPT !.kind = "raised"]]
  /\ close_connection' = [close_connection EXCEPT ![c] = TRUE]
  /\ num_active_requests' = num_active_requests - 1
  /\ UNCHANGED <<retries, protocol_version, fetched, failures, recorded>>

\* The response goes on to send_archived_http_response.
ToSend(c, newArchive, holder) ==
  /\ archive' = newArchive
  /\ pc' = [pc EXCEPT ![c] = "send"]
  /\ response' = [response EXCEPT ![c] = holder]
  /\ UNCHANGED <<out, close_connection, num_active_requests, retries, protocol_version,
                 fetched, failures, recorded>>

\* The fetcher calls RealHttpFetch.
ToReal(c) ==
  /\ pc' = [pc EXCEPT ![c] = "real"]
  /\ retries' = [retries EXCEPT ![c] = Retries]
  /\ UNCHANGED <<archive, response, out, close_connection, num_active_requests,
                 protocol_version, fetched, failures, recorded>>

\* if self.inject_script: response = _InjectScripts(response, ...)
Injected(val) ==
  IF inject_script THEN InjectScripts(val) ELSE [copied |-> FALSE, response |-> val]

\* if self.scramble_images: response = _ScrambleImages(response)
Scrambled(val, decoded) ==
  IF scramble_images THEN ScrambleImages(val, decoded)
  ELSE [copied |-> FALSE, response |-> val]

\* RecordHttpArchiveFetch.__call__ up to the call of real_http_fetch
RecordFetch(c, key) ==
  /\ invoked' = [invoked EXCEPT ![c] = @ \cup {"handlers", "archive"}
                   \cup (IF key \in DOMAIN archive THEN {} ELSE {"real_fetch"})]
  /\ IF key \in DOMAIN archive
       THEN \E m \in {MutateResponse(request[c], FALSE, archive[key])} :
            \E inj \in {Injected(m.response)} :
              IF m.raised THEN Raise(c, [archive EXCEPT ![key] = m.response])
              ELSE ToSend(c, [archive EXCEPT ![key] = m.response],
                          IF inj.copied THEN Own(inj.response) ELSE Arch(key))
       ELSE ToReal(c)

\* http_archive.find_closest_request(request, use_path=True): the archived
\* requests of the same command, host and path
ClosestRequests(req) ==
  {k \in DOMAIN archive :
     /\ k.command = req.command
     /\ k.host = req.host
     /\ k.is_ssl = req.is_ssl
     /\ UrlParse(k.repr_path).path = req.path}

T_localhost == <<"1", "2", "7", ".", "0", ".", "0", ".", "1", ":">>

\* The requests whose archived response the replay fetcher returns.
Found(req, key) ==
  IF key \in DOMAIN archive THEN {key}
  ELSE IF use_closest_match THEN ClosestRequests(req) ELSE {}

\* The rest of ReplayHttpArchiveFetch.__call__ once mutate_response has
\* returned, and the 404 of the handler when the fetcher returns None.
ReplayFound(c, written, found) ==
  IF found = {} THEN ToSend(c, written, Own(CreateResponse(404)))
  ELSE \E k \in found : \E decoded \in BOOLEAN :
       \E inj \in {Injected(written[k])} :
       \E scr \in {Scrambled(inj.response, decoded)} :
         ToSend(c, written,
                IF inj.copied \/ scr.copied THEN Own(scr.response) ELSE Arch(k))

\* ReplayHttpArchiveFetch.__call__ with its first test true of every host:
\* every request is handed to real_http_fetch.
ReplayFetchAll(c, key) ==
  /\ invoked' = [invoked EXCEPT ![c] = @ \cup {"handlers", "real_fetch"}]
  /\ ToReal(c)

\* ReplayHttpArchiveFetch.__call__
ReplayFetch(c, key) ==
  IF StartsWith(request[c].host, T_localhost)
    THEN /\ invoked' = [invoked EXCEPT ![c] = @ \cup {"handlers", "real_fetch"}]
         /\ ToReal(c)
    ELSE
      /\ invoked' = [invoked EXCEPT ![c] = @ \cup {"handlers", "archive"}]
      /\ \E m \in {MutateResponse(request[c], key \notin DOMAIN archive,
                                  IF key \in DOMAIN archive THEN archive[key]
                                  ELSE NoResponse)} :
         \E written \in {IF key \in DOMAIN archive
                           THEN [archive EXCEPT ![key] = m.response] ELSE archive} :
           IF m.raised THEN Raise(c, written)
           ELSE ReplayFound(c, written, Found(request[c], key))

\* custom_handlers.handle(request) returns None for the requests of the
\* model; then self.server.http_archive_fetch(request) forwards to self.fetch.
Dispatch(c) ==
  /\ pc[c] = "handle"
  /\ fetcher' = [fetcher EXCEPT ![c] = fetch]
  /\ IF fetch = "record" THEN RecordFetch(c, Key(request[c]))
     ELSE ReplayFetch(c, Key(request[c]))
  /\ UNCHANGED <<fetch, is_record_mode, config, request, handled, delay_ms, unread, stray, raw,
                 reg>>

\* ------------------------------------------------------------------------
\* RealHttpFetch.__call__: one pass of its loop
\* ------------------------------------------------------------------------

\* A fetcher that returns the response without storing it.
StoredNowhere(arch, key, val) == arch

\* self.http_archive[request] = response
Stored(arch, key, val) ==
  [k \in DOMAIN arch \cup {key} |-> IF k = key THEN val ELSE arch[k]]

\* The handlers that hold the object the archive had under key keep it when
\* the archive gets another object under that key.
Detached(c, key) ==
  [d \in Conns |->
     IF d # c /\ response[d].kind = "arch" /\ response[d].key = key
       THEN Own(archive[key]) ELSE response[d]]

\* An attempt that raises nothing: the ArchivedHttpResponse is returned, and
\* RecordHttpArchiveFetch stores it.
AttemptOk(c, key, fresh) ==
  /\ fetched' = [fetched EXCEPT ![c] = "ok"]
  /\ pc' = [pc EXCEPT ![c] = "send"]
  /\ IF fetcher[c] = "record"
       THEN /\ archive' = Stored(archive, key, fresh)
            /\ recorded' = Stored(recorded, key, fresh)
            /\ \E inj \in {Injected(fresh)} :
                 response' = [Detached(c, key) EXCEPT ![c] =
                                IF inj.copied THEN Own(inj.response) ELSE Arch(key)]
       ELSE /\ response' = [response EXCEPT ![c] = Own(fresh)]
            /\ UNCHANGED <<archive, recorded>>
  /\ UNCHANGED <<retries, failures>>

\* RealHttpFetch.__call__ without "if retries": the first exception makes it
\* return None.
AttemptRaisesOnce(c) ==
  /\ failures' = [failures EXCEPT ![c] = @ + 1]
  /\ fetched' = [fetched EXCEPT ![c] = "null"]
  /\ response' = [response EXCEPT ![c] = Own(CreateResponse(404))]
  /\ pc' = [pc EXCEPT ![c] = "send"]
  /\ UNCHANGED <<retries, archive, recorded>>

\* A fetcher that stores what it has assembled when the last attempt fails.
AttemptRaisesPartial(c) ==
  /\ failures' = [failures EXCEPT ![c] = @ + 1]
  /\ IF retries[c] > 0
       THEN /\ retries' = [retries EXCEPT ![c] = @ - 1]
            /\ UNCHANGED <<pc, response, fetched, archive>>
       ELSE /\ fetched' = [fetched EXCEPT ![c] = "null"]
            /\ response' = [response EXCEPT ![c] = Own(CreateResponse(404))]
            /\ pc' = [pc EXCEPT ![c] = "send"]
            /\ archive' = Stored(archive, Key(request[c]), NoResponse)
            /\ UNCHANGED retries
  /\ UNCHANGED recorded

\* An attempt that raises: retried while retries is not 0, else None is
\* returned and the handler sends its 404.
AttemptRaises(c) ==
  /\ failures' = [failures EXCEPT ![c] = @ + 1]
  /\ IF retries[c] > 0
       THEN /\ retries' = [retries EXCEPT ![c] = @ - 1]
            /\ UNCHANGED <<pc, response, fetched>>
       ELSE /\ fetched' = [fetched EXCEPT ![c] = "null"]
            /\ response' = [response EXCEPT ![c] = Own(CreateResponse(404))]
            /\ pc' = [pc EXCEPT ![c] = "send"]
            /\ UNCHANGED retries
  /\ UNCHANGED <<archive, recorded>>

Attempt(c, outcome) ==
  /\ pc[c] = "real"
  /\ invoked' = [invoked EXCEPT ![c] =
                   @ \cup {"dns"}
                     \cup (IF outcome = "no_ip" THEN {}
                          ELSE {"connect", GetConnection(request[c].is_ssl)})
                     \cup (IF outcome = "ok" THEN {"read_chunks"} ELSE {})]
  /\ IF outcome = "ok" /\ ~FetchRaises(request[c])
       THEN AttemptOk(c, Key(request[c]), FetchedResponse(request[c]))
       ELSE AttemptRaises(c)
  /\ UNCHANGED <<fetch, is_record_mode, config, num_active_requests, request,
                 close_connection, protocol_version, out, fetcher, handled, delay_ms,
                 unread, stray, raw, reg>>

\* ------------------------------------------------------------------------
\* HttpArchiveHandler.send_archived_http_response, and the end of
\* do_parse_and_handle_one_request
\* ------------------------------------------------------------------------

\* What the loop over zip(response_data, delays) writes, and the final chunk.
RECURSIVE WireBody(_, _)
WireBody(chunks, is_chunked) ==
  IF Len(chunks) = 0 THEN (IF is_chunked THEN <<"0">> \o CRLF \o CRLF ELSE <<>>)
  ELSE (IF is_chunked THEN HexStr(Len(chunks[1])) \o CRLF \o chunks[1] \o CRLF
        ELSE chunks[1])
       \o WireBody(Tail(chunks), is_chunked)

\* send_archived_http_response without lines 147-149.
WithContentLengthKept(val) == val

\* The response object after lines 147-149: the content-length is appended
\* to the headers of the object itself.
WithContentLength(val) ==
  IF ~IsChunked(val) /\ ~HasHeader(val.headers, "content-length")
    THEN [val EXCEPT !.headers =
            Append(@, <<"content-length", DecStr(SumLen(val.response_data))>>)]
    ELSE val

\* The delays of a writer that never looks at use_delays.
SendDelaysNone(val) == [k \in 1..Len(val.response_data) |-> 0]

\* The delays the chunks are written with (lines 156-161).
SendDelays(val) ==
  IF ~is_record_mode /\ use_delays THEN val.delays.data
  ELSE [k \in 1..Len(val.response_data) |-> 0]

\* The headers the loop of lines 164-168 sends (the responses of the model
\* carry no last-modified and no expires header).
SentHeaders(val) == SelectSeq(val.headers, LAMBDA h : h[1] \notin {"date", "server"})

\* zip(response_data, delays): as many chunks as there are delays
Zipped(val) == SubSeq(val.response_data, 1, Min2(Len(val.response_data), Len(SendDelays(val))))

\* A writer that never changes self.protocol_version.
ProtocolKept(c, val) == protocol_version[c]

\* self.protocol_version once the response's version is looked at (line 142)
ProtocolFor(c, val) == IF val.version = 10 THEN "HTTP/1.0" ELSE protocol_version[c]

\* One step of the writer: a sleep of ms milliseconds, or a write or flush of
\* wfile (n: the index of the chunk).
Event(op, n, ms) == [op |-> op, n |-> n, ms |-> ms]

\* The loop of lines 171-179 from chunk k on: flush and sleep when the chunk
\* has a delay, then the write of the chunk.
RECURSIVE ChunkEvents(_, _, _)
ChunkEvents(n, delays, k) ==
  IF k > n THEN <<>>
  ELSE (IF delays[k] # 0
          THEN <<Event("flush", k, 0), Event("sleep_chunk", k, delays[k])>>
          ELSE <<>>)
       \o <<Event("write", k, 0)>>
       \o ChunkEvents(n, delays, k + 1)

\* A writer that sleeps delays.headers once the status line and the headers
\* are sent.
SendEventsHeadersFirst(val) ==
  (IF ~is_record_mode /\ delay_ms # 0
     THEN <<Event("sleep_propagation", 0, delay_ms)>> ELSE <<>>)
  \o <<Event("status", 0, 0), Event("headers", 0, 0)>>
  \o (IF ~is_record_mode /\ use_delays
        THEN <<Event("sleep_headers", 0, val.delays.headers)>> ELSE <<>>)
  \o ChunkEvents(Len(Zipped(val)), SendDelays(val), 1)
  \o (IF IsChunked(val) THEN <<Event("final", 0, 0)>> ELSE <<>>)
  \o <<Event("flush", 0, 0)>>

\* The sleeps, writes and flushes of send_archived_http_response, in the
\* order of lines 151-182.
SendEvents(val) ==
  (IF ~is_record_mode /\ delay_ms # 0
     THEN <<Event("sleep_propagation", 0, delay_ms)>> ELSE <<>>)
  \o (IF ~is_record_mode /\ use_delays
        THEN <<Event("sleep_headers", 0, val.delays.headers)>> ELSE <<>>)
  \o <<Event("status", 0, 0), Event("headers", 0, 0)>>
  \o ChunkEvents(Len(Zipped(val)), SendDelays(val), 1)
  \o (IF IsChunked(val) THEN <<Event("final", 0, 0)>> ELSE <<>>)
  \o <<Event("flush", 0, 0)>>

\* send_archived_http_response when every write succeeds: what reaches the
\* client, and what the call leaves in the response object and the handler.
Respond(c) ==
  /\ \E val \in {WithContentLength(Deref(response[c]))} :
     \E body \in {Zipped(val)} :
       /\ archive' = ArchiveWith(response[c], val)
       /\ protocol_version' = [protocol_version EXCEPT ![c] = ProtocolFor(c, val)]
       /\ out' = [out EXCEPT ![c] =
            [kind |-> "response", status |-> val.status, version |-> val.version,
             protocol |-> ProtocolFor(c, val),
             headers |-> SentHeaders(val), body |-> body,
             wire |-> WireBody(body, IsChunked(val)),
             events |-> SendEvents(val), exc |-> "none", raised |-> FALSE,
             logged |-> FALSE, reflushed |-> FALSE]]
       /\ close_connection' = [close_connection EXCEPT ![c] = @ \/ val.version = 10]
  /\ response' = [response EXCEPT ![c] = NoHolder]
  /\ UNCHANGED <<fetch, is_record_mode, config, request, retries, fetcher, invoked,
                 fetched, failures, recorded, handled, delay_ms, unread, stray, raw>>

Send(c) ==
  /\ pc[c] = "send"
  /\ Respond(c)
  /\ pc' = [pc EXCEPT ![c] = "done"]
  /\ num_active_requests' = num_active_requests - 1
  /\ UNCHANGED reg

\* The except clauses of handle_one_request (lines 197-207) for the
\* exception exc of the request of connection c: the close_connection they
\* leave, and whether the exception leaves handle_one_request; then
\* BaseHTTPRequestHandler.handle is left too and the connection is shut down.
ExceptSocketErrorAll(c, exc) ==
  [close |-> IF exc = "timeout" THEN TRUE ELSE close_connection[c], raised |-> FALSE]

ExceptSocketError(c, exc) ==
  IF exc = "timeout" THEN [close |-> TRUE, raised |-> FALSE]
  ELSE IF exc = "reset" THEN [close |-> close_connection[c], raised |-> FALSE]
  ELSE IF exc = "error" THEN [close |-> TRUE, raised |-> TRUE]
  ELSE [close |-> close_connection[c], raised |-> FALSE]

\* How the read of a request line can fail: the client has closed the
\* connection ("eof": readline returns ''), or readline raises
\* socket.timeout, a socket.error with errno ECONNRESET, or another
\* socket.error.
ReadFailures == {"eof", "timeout", "reset", "error"}

\* handle_one_request when self.rfile.readline(65537) gives no request line.
\* For '' do_parse_and_handle_one_request runs: it counts the request, sets
\* close_connection (lines 220-222) and counts it out again.
ReadFails(c, kind) ==
  /\ CanRead(c)
  /\ \E h \in {ExceptSocketError(c, IF kind = "eof" THEN "none" ELSE kind)} :
       /\ close_connection' = [close_connection EXCEPT ![c] = (kind = "eof") \/ h.close]
       /\ out' = [out EXCEPT ![c] =
            [NoOut EXCEPT !.kind = kind, !.exc = IF kind = "eof" THEN "none" ELSE kind,
                          !.raised = h.raised]]
  /\ pc' = [pc EXCEPT ![c] = "done"]
  /\ UNCHANGED <<fetch, is_record_mode, archive, config, num_active_requests, request,
                 response, retries, protocol_version, fetcher, invoked, fetched, failures,
                 recorded, handled, delay_ms, unread, stray, raw, reg>>

\* The response the handler sends is written inside the inner try of
\* do_parse_and_handle_one_request (lines 227-239): not the 414 of line 218
\* and not the 400 of parse_request.
InInnerTry(c) == unread[c] # "line" /\ stray[c] = "none"

\* How a write to the client can fail: socket.timeout, a socket.error with
\* errno ECONNRESET, or another socket.error.
WriteFailures == {"timeout", "reset", "error"}

\* send_archived_http_response when a write or flush of wfile raises: the
\* except clause of line 188 logs the exception, and close_connection is
\* not set for version 10.  The rest of the response stays in the buffer
\* of wfile; inside the inner try the flush of line 239 sends it, or raises
\* again (again), and that exception reaches handle_one_request.
SendFails(c, kind, again) ==
  /\ pc[c] = "send"
  /\ again \/ kind = "timeout"
  /\ \E val \in {WithContentLength(Deref(response[c]))} :
     \E exc \in {IF InInnerTry(c) /\ again THEN kind ELSE "none"} :
     \E h \in {ExceptSocketError(c, exc)} :
       /\ archive' = ArchiveWith(response[c], val)
       /\ protocol_version' = [protocol_version EXCEPT ![c] = ProtocolFor(c, val)]
       /\ out' = [out EXCEPT ![c] =
            [NoOut EXCEPT !.kind = "partial", !.status = val.status,
                          !.version = val.version, !.protocol = ProtocolFor(c, val),
                          !.exc = exc, !.raised = h.raised, !.logged = TRUE,
                          !.reflushed = InInnerTry(c) /\ ~again]]
       /\ close_connection' = [close_connection EXCEPT ![c] = h.close]
  /\ response' = [response EXCEPT ![c] = NoHolder]
  /\ pc' = [pc EXCEPT ![c] = "done"]
  /\ num_active_requests' = num_active_requests - 1
  /\ UNCHANGED <<fetch, is_record_mode, config, request, retries, fetcher, invoked,
                 fetched, failures, recorded, handled, delay_ms, unread, stray, raw, reg>>

\* handle_one_request returns to the loop of the connection: the handler is
\* ready for the next request.
Return(c) ==
  /\ pc[c] = "done"
  /\ pc' = [pc EXCEPT ![c] = "idle"]
  /\ request' = [request EXCEPT ![c] = NoRequest]
  /\ retries' = [retries EXCEPT ![c] = 0]
  /\ out' = [out EXCEPT ![c] = NoOut]
  /\ fetcher' = [fetcher EXCEPT ![c] = "none"]
  /\ invoked' = [invoked EXCEPT ![c] = {}]
  /\ fetched' = [fetched EXCEPT ![c] = "none"]
  /\ failures' = [failures EXCEPT ![c] = 0]
  /\ stray' = [stray EXCEPT ![c] = "none"]
  /\ raw' = [raw EXCEPT ![c] = NoWire]
  /\ UNCHANGED <<fetch, is_record_mode, archive, config, num_active_requests, response,
                 close_connection, protocol_version, recorded, handled, delay_ms, unread,
                 reg>>

\* ------------------------------------------------------------------------
\* The specification: one connection at a time
\* ------------------------------------------------------------------------

Next ==
  \/ SetRecordMode
  \/ SetReplayMode
  \/ \E c \in SerialConns :
       \/ \E w \in WireRequests : ReadRequest(c, w)
       \/ ReadStray(c)
       \/ NewConnection(c)
       \/ Dispatch(c)
       \/ \E outcome \in Outcomes : Attempt(c, outcome)
       \/ Send(c)
       \/ Return(c)

Spec == Init /\ [][Next]_vars

\* ------------------------------------------------------------------------
\* Handler threads (SocketServer.ThreadingMixIn): one thread per connection.
\* self.server.num_active_requests += 1 and -= 1 are a load of the attribute
\* and a store of the new value, and another thread can run in between.
\* ------------------------------------------------------------------------

\* The requests the clients of the threaded server send: answered by a rule,
\* without Host header, with a line that does not parse, and one for the
\* fetcher.
ConcRequests ==
  { WireRequest("GET", H_evil, P_x),
    WireRequest("GET", H_example, P_a1),
    [WireRequest("GET", H_example, P_a) EXCEPT !.headers = <<>>],
    [WireRequest("GET", H_example, P_a) EXCEPT !.parses = FALSE] }

\* handle_one_request has read the request line of w, and
\* do_parse_and_handle_one_request loads the counter (line 211).
BeginRequest(c, w) ==
  /\ CanRead(c)
  /\ unread[c] = "none"
  /\ handled < MaxRequests
  /\ handled' = handled + 1
  /\ raw' = [raw EXCEPT ![c] = w]
  /\ reg' = [reg EXCEPT ![c] = num_active_requests]
  /\ pc' = [pc EXCEPT ![c] = "inc"]
  /\ UNCHANGED <<fetch, is_record_mode, archive, config, num_active_requests, request,
                 response, retries, close_connection, protocol_version, out, fetcher,
                 invoked, fetched, failures, recorded, delay_ms, unread, stray>>

\* The store of line 211, and the handling of the request up to the fetcher
\* or up to the response of send_error.
StoreInc(c) ==
  /\ pc[c] = "inc"
  /\ num_active_requests' = reg[c] + 1
  /\ Received(c, raw[c])
  /\ UNCHANGED <<handled, reg>>

\* send_archived_http_response in a thread.
ThreadSend(c) ==
  /\ pc[c] = "send"
  /\ Respond(c)
  /\ pc' = [pc EXCEPT ![c] = "exit"]
  /\ UNCHANGED <<num_active_requests, reg>>

\* The load of line 246, in the finally clause.
LoadDec(c) ==
  /\ pc[c] = "exit"
  /\ reg' = [reg EXCEPT ![c] = num_active_requests]
  /\ pc' = [pc EXCEPT ![c] = "dec"]
  /\ UNCHANGED <<fetch, is_record_mode, archive, config, num_active_requests, request,
                 response, retries, close_connection, protocol_version, out, fetcher,
                 invoked, fetched, failures, recorded, handled, delay_ms, unread, stray, raw>>

\* The store of line 246.
StoreDec(c) ==
  /\ pc[c] = "dec"
  /\ num_active_requests' = reg[c] - 1
  /\ pc' = [pc EXCEPT ![c] = "done"]
  /\ UNCHANGED <<fetch, is_record_mode, archive, config, request, response, retries,
                 close_connection, protocol_version, out, fetcher, invoked, fetched,
                 failures, recorded, handled, delay_ms, unread, stray, raw, reg>>

\* The server in replay mode with an empty archive and no option set.
InitConc ==
  /\ is_record_mode = FALSE
  /\ use_delays = FALSE
  /\ use_closest_match = FALSE
  /\ inject_script = FALSE
  /\ scramble_images = FALSE
  /\ delay_ms = 0
  /\ is_ssl = FALSE
  /\ server = ParseRules(Rules, paths_to_edit)
  /\ Started

NextConc ==
  \E c \in Conns :
    \/ \E w \in ConcRequests : BeginRequest(c, w)
    \/ StoreInc(c)
    \/ Dispatch(c)
    \/ ThreadSend(c)
    \/ LoadDec(c)
    \/ StoreDec(c)
    \/ Return(c)
    \/ NewConnection(c)

ConcSpec == InitConc /\ [][NextConc]_vars

\* The server with a propagation delay and with sockets that can fail: the
\* options that change no timing and no error path are off.
PropagationMs == 5

InitNet ==
  /\ is_record_mode \in BOOLEAN
  /\ use_delays \in BOOLEAN
  /\ use_closest_match = FALSE
  /\ inject_script = FALSE
  /\ scramble_images = FALSE
  /\ delay_ms \in {0, PropagationMs}
  /\ is_ssl = FALSE
  /\ server = ParseRules(Rules, paths_to_edit)
  /\ Started

NextNet ==
  \/ Next
  \/ \E c \in SerialConns :
       \/ \E kind \in ReadFailures : ReadFails(c, kind)
       \/ \E kind \in WriteFailures : \E again \in BOOLEAN : SendFails(c, kind, again)

NetSpec == InitNet /\ [][NextNet]_vars

\* ------------------------------------------------------------------------
\* Servers constructed with other rules: parse_rules, and the
\* ArchivedHttpRequest get_archived_http_request builds from what it left
\* ------------------------------------------------------------------------

\* (a)bc.*
Re_abc == <<"(", "a", ")", "b", "c", ".", "*">>
\* a(b)c.*
Re_bc == <<"a", "(", "b", ")", "c", ".", "*">>
\* ((.*\.)foo).*       a group that starts another group
Re_nest_near == <<"(", "(", ".", "*", "\\", ".", ")", "f", "o", "o", ")", ".", "*">>
\* (abc(\.)foo).*      a group inside another, three characters further on
Re_nest_far == <<"(", "a", "b", "c", "(", "\\", ".", ")", "f", "o", "o", ")", ".", "*">>
\* \((a)              an escaped parenthesis before a group
Re_escaped == <<"\\", "(", "(", "a", ")">>
T_cookie == <<"c", "o", "o", "k", "i", "e">>
T_dnt == <<"d", "n", "t">>

RemoveGroups(urls) ==
  [predicate |-> "urlMatches", args |-> urls, action |-> "removeGroupsFromURL",
   values |-> <<>>]

RemoveHeader(urls, name) ==
  [predicate |-> "urlMatches", args |-> urls, action |-> "removeHeader",
   values |-> <<name>>]

\* The rule lists the servers are constructed with.
RuleLists ==
  { Rules,
    <<>>,
    <<RemoveGroups(<<Re_abc, Re_bc>>)>>,
    <<RemoveGroups(<<Re_nest_near>>)>>,
    <<RemoveGroups(<<Re_nest_far>>)>>,
    <<RemoveGroups(<<Re_escaped>>)>>,
    <<RemoveHeader(<<Re_a>>, T_cookie), RemoveHeader(<<Re_a>>, T_dnt)>>,
    <<RemoveHeader(<<Re_a>>, T_cookie), RemoveHeader(<<P_p>>, T_dnt)>>,
    <<RemoveGroups(<<Re_edit>>), RemoveHeader(<<Re_a, P_p>>, T_cookie)>> }

\* HttpProxyServer.__init__ calls self.parse_rules(rules) (line 299).
StartServer ==
  /\ ~server.parsed
  /\ \E order \in Orders(PathsToEditOf(RulesIn(server.rules, "urlMatches",
                                                "removeGroupsFromURL"))) :
       server' = ParseRules(server.rules, order)
  /\ UNCHANGED <<fetch, is_record_mode, archive, use_delays, use_closest_match,
                 inject_script, scramble_images, is_ssl, num_active_requests, pc, request,
                 response, retries, close_connection, protocol_version, out, fetcher,
                 invoked, fetched, failures, recorded, handled, delay_ms, unread, stray,
                 raw, reg, tls>>

\* get_archived_http_request returns the ArchivedHttpRequest of w: w has a
\* host header, and no error path of the server matches it.
BuildRequest(c, w) ==
  /\ server.parsed /\ ~server.raised
  /\ pc[c] = "new"
  /\ w.linelen <= MaxRequestLine /\ w.parses
  /\ HasHeader(w.headers, "host")
  /\ ErrorStatusesOf(server.error_paths, GetHeader(w.headers, "host"), FullPath(w.path)) = {}
  /\ request' = [request EXCEPT ![c] =
                   RequestWith(server.paths_to_edit, server.undesirable_headers, w)]
  /\ raw' = [raw EXCEPT ![c] = w]
  /\ pc' = [pc EXCEPT ![c] = "built"]
  /\ UNCHANGED <<fetch, is_record_mode, archive, config, num_active_requests, response,
                 retries, close_connection, protocol_version, out, fetcher, invoked,
                 fetched, failures, recorded, handled, delay_ms, unread, stray, reg>>

\* The request is dropped; the handler reads another one.
Forget(c) ==
  /\ pc[c] = "built"
  /\ request' = [request EXCEPT ![c] = NoRequest]
  /\ raw' = [raw EXCEPT ![c] = NoWire]
  /\ pc' = [pc EXCEPT ![c] = "new"]
  /\ UNCHANGED <<fetch, is_record_mode, archive, config, num_active_requests, response,
                 retries, close_connection, protocol_version, out, fetcher, invoked,
                 fetched, failures, recorded, handled, delay_ms, unread, stray, reg>>

\* A server about to be constructed with one of the rule lists, in replay
\* mode and with no option set.
InitRules ==
  /\ is_record_mode = FALSE
  /\ use_delays = FALSE
  /\ use_closest_match = FALSE
  /\ inject_script = FALSE
  /\ scramble_images = FALSE
  /\ delay_ms = 0
  /\ is_ssl = FALSE
  /\ server \in {Unparsed(rs) : rs \in RuleLists}
  /\ Started

NextRules ==
  \/ StartServer
  \/ \E c \in SerialConns :
       \/ \E w \in WireRequests : BuildRequest(c, w)
       \/ Forget(c)

RuleSpec == InitRules /\ [][NextRules]_vars

\* HttpToHttpsProxyServer: the server started with is_ssl=True on a listener
\* for plain HTTP, in either mode.
InitHttpToHttps ==
  /\ is_record_mode \in BOOLEAN
  /\ use_delays = FALSE
  /\ use_closest_match \in BOOLEAN
  /\ inject_script = FALSE
  /\ scramble_images = FALSE
  /\ delay_ms = 0
  /\ is_ssl = TRUE
  /\ server = ParseRules(Rules, paths_to_edit)
  /\ Started

HttpToHttpsSpec == InitHttpToHttps /\ [][Next]_vars

\* ------------------------------------------------------------------------
\* Handler threads on two connections, with the real fetch, and a thread that
\* calls SetRecordMode and SetReplayMode: each of the two is two assignments
\* (httpclient.py lines 565-566, 569-570), with no lock around them
\* ------------------------------------------------------------------------

\* self.fetch = self.record_fetch
SetRecordModeFetch ==
  /\ fetch = "replay" /\ ~is_record_mode
  /\ fetch' = "record"
  /\ UNCHANGED <<is_record_mode, archive, config, num_active_requests, pc, request,
                 response, retries, close_connection, protocol_version, out, fetcher,
                 invoked, fetched, failures, recorded, handled, delay_ms, unread, stray,
                 raw, reg>>

\* self.is_record_mode = True
SetRecordModeFlag ==
  /\ fetch = "record" /\ ~is_record_mode
  /\ is_record_mode' = TRUE
  /\ UNCHANGED <<fetch, archive, config, num_active_requests, pc, request, response,
                 retries, close_connection, protocol_version, out, fetcher, invoked,
                 fetched, failures, recorded, handled, delay_ms, unread, stray, raw, reg>>

\* self.fetch = self.replay_fetch
SetReplayModeFetch ==
  /\ fetch = "record" /\ is_record_mode
  /\ fetch' = "replay"
  /\ UNCHANGED <<is_record_mode, archive, config, num_active_requests, pc, request,
                 response, retries, close_connection, protocol_version, out, fetcher,
                 invoked, fetched, failures, recorded, handled, delay_ms, unread, stray,
                 raw, reg>>

\* self.is_record_mode = False
SetReplayModeFlag ==
  /\ fetch = "replay" /\ is_record_mode
  /\ is_record_mode' = FALSE
  /\ UNCHANGED <<fetch, archive, config, num_active_requests, pc, request, response,
                 retries, close_connection, protocol_version, out, fetcher, invoked,
                 fetched, failures, recorded, handled, delay_ms, unread, stray, raw, reg>>

RaceRequests ==
  { WireRequest("GET", H_example, P_a1),
    WireRequest("GET", H_example, P_a2) }

\* How an attempt of the real fetch ends in the threads.
RaceOutcomes == {"ok", "connect_failed"}

\* The server in either mode, with or without delays; the two connections
\* are kept alive.
InitRace ==
  /\ is_record_mode \in BOOLEAN
  /\ use_delays \in BOOLEAN
  /\ use_closest_match = FALSE
  /\ inject_script = FALSE
  /\ scramble_images = FALSE
  /\ delay_ms \in {0, PropagationMs}
  /\ is_ssl = FALSE
  /\ server = ParseRules(Rules, paths_to_edit)
  /\ Started

NextRace ==
  \/ SetRecordModeFetch
  \/ SetRecordModeFlag
  \/ SetReplayModeFetch
  \/ SetReplayModeFlag
  \/ \E c \in Conns :
       \/ \E w \in RaceRequests : ReadRequest(c, w)
       \/ Dispatch(c)
       \/ \E outcome \in RaceOutcomes : Attempt(c, outcome)
       \/ Send(c)
       \/ Return(c)

RaceSpec == InitRace /\ [][NextRace]_vars

\* ------------------------------------------------------------------------
\* HttpsProxyServer: the TLS handshakes of the MITM listener and its
\* CertCache (leaf certificates generated per SNI hostname, inserted with a
\* double check: an unsynchronized lookup, then a second lookup under the
\* write lock of the cache)
\* ------------------------------------------------------------------------

\* The handshakes a connection goes through.
MaxHandshakes == 2

\* The state of the HTTP handlers, which a handshake leaves alone.
http == <<fetch, is_record_mode, archive, use_delays, use_closest_match, inject_script,
          scramble_images, num_active_requests, pc, request, response, retries,
          close_connection, protocol_version, out, fetcher, invoked, fetched, failures,
          recorded, handled, delay_ms, unread, stray, raw, reg, is_ssl, server>>

\* The cache has an entry for the hostname.
Cached(cache, host) == host \in DOMAIN cache

\* The second lookup, made by the holder of the write lock, skipped.
RecheckSkipped(cache, host) == FALSE

\* The second lookup, made by the holder of the write lock.
Rechecked(cache, host) == Cached(cache, host)

\* The cache after the leaf certificate of a hostname is inserted.
Inserted(cache, host, cert) ==
  [h \in DOMAIN cache \cup {host} |-> IF h = host THEN cert ELSE cache[h]]

\* A client opens a TLS connection and names the hostname in the SNI.
ClientHello(c, host) ==
  /\ handshake[c].at = "idle"
  /\ handshake[c].done < MaxHandshakes
  /\ handshake' = [handshake EXCEPT ![c] = [@ EXCEPT !.at = "lookup", !.host = host]]
  /\ UNCHANGED <<http, cert_cache, cert_lock, minted>>

\* The unsynchronized read of the cache: a published entry is used as it is.
Lookup(c) ==
  /\ handshake[c].at = "lookup"
  /\ handshake' = [handshake EXCEPT ![c] =
                     IF Cached(cert_cache, @.host)
                       THEN [@ EXCEPT !.at = "wrap", !.cert = cert_cache[handshake[c].host]]
                       ELSE [@ EXCEPT !.at = "acquire"]]
  /\ UNCHANGED <<http, cert_cache, cert_lock, minted>>

\* Writes are exclusive: the handshake takes the write lock of the cache.
Acquire(c) ==
  /\ handshake[c].at = "acquire"
  /\ cert_lock = 0
  /\ cert_lock' = c
  /\ handshake' = [handshake EXCEPT ![c].at = "recheck"]
  /\ UNCHANGED <<http, cert_cache, minted>>

\* The second lookup: an entry inserted since the first one is used and the
\* lock is released, otherwise the certificate is generated.
Recheck(c) ==
  /\ handshake[c].at = "recheck"
  /\ IF Rechecked(cert_cache, handshake[c].host)
       THEN /\ handshake' = [handshake EXCEPT ![c] =
                               [@ EXCEPT !.at = "wrap",
                                         !.cert = cert_cache[handshake[c].host]]]
            /\ cert_lock' = 0
       ELSE /\ handshake' = [handshake EXCEPT ![c].at = "generate"]
            /\ UNCHANGED cert_lock
  /\ UNCHANGED <<http, cert_cache, minted>>

\* The key pair and the leaf certificate are generated (commonName =
\* hostname, a random serial), the certificate is inserted and the lock
\* released.
Generate(c) ==
  /\ handshake[c].at = "generate"
  /\ \E serial \in Serials :
       \E cert \in {[commonName |-> handshake[c].host, serial |-> serial]} :
         /\ cert_cache' = Inserted(cert_cache, handshake[c].host, cert)
         /\ handshake' = [handshake EXCEPT ![c] = [@ EXCEPT !.at = "wrap", !.cert = cert]]
  /\ minted' = [minted EXCEPT ![handshake[c].host] = @ + 1]
  /\ cert_lock' = 0
  /\ UNCHANGED http

\* The generation fails (a key generation failure): the handshake is
\* aborted and nothing is inserted.
GenerateFails(c) ==
  /\ handshake[c].at = "generate"
  /\ handshake' = [handshake EXCEPT ![c].at = "abort"]
  /\ cert_lock' = 0
  /\ UNCHANGED <<http, cert_cache, minted>>

\* The handshake completes with the leaf certificate, or the connection is
\* dropped after an abort.
Complete(c) ==
  /\ handshake[c].at \in {"wrap", "abort"}
  /\ handshake' = [handshake EXCEPT ![c] = [NoHandshake EXCEPT !.done = handshake[c].done + 1]]
  /\ UNCHANGED <<http, cert_cache, cert_lock, minted>>

\* The MITM listener started in replay mode with no option set.
InitTls ==
  /\ is_record_mode = FALSE
  /\ use_delays = FALSE
  /\ use_closest_match = FALSE
  /\ inject_script = FALSE
  /\ scramble_images = FALSE
  /\ delay_ms = 0
  /\ is_ssl = TRUE
  /\ server = ParseRules(Rules, paths_to_edit)
  /\ Started

NextTls ==
  \E c \in TlsConns :
    \/ \E host \in TlsHosts : ClientHello(c, host)
    \/ Lookup(c)
    \/ Acquire(c)
    \/ Recheck(c)
    \/ Generate(c)
    \/ GenerateFails(c)
    \/ Complete(c)

TlsSpec == InitTls /\ [][NextTls]_vars

\* ------------------------------------------------------------------------
\* Properties of the written response
\* ------------------------------------------------------------------------

\* What one completed send_archived_http_response put on the wire.
SentChunked(c) == GetHeader(out[c].headers, "transfer-encoding") = T_chunked

SentLengthMatches(c) ==
  /\ HasHeader(out[c].headers, "content-length")
  /\ ParseInt(GetHeader(out[c].headers, "content-length")) = Len(out[c].wire)

C2_SendStatus ==
  \A c \in SerialConns :
    ErrorStatuses(request[c].host, request[c].full_path) # {} =>
      /\ invoked[c] = {}
      /\ fetcher[c] = "none"
      /\ pc[c] \in {"send", "done"}
      /\ pc[c] = "send" =>
           /\ response[c].kind = "own"
           /\ response[c].val.status \in ErrorStatuses(request[c].host, request[c].full_path)
      /\ pc[c] = "done" =>
           /\ out[c].kind = "response"
           /\ out[c].status \in ErrorStatuses(request[c].host, request[c].full_path)

\* The 503 of the rule for evil.com has been written, in replay mode.
C2_Witness ==
  /\ pc[1] = "done"
  /\ request[1].host = H_evil
  /\ out[1].kind = "response"
  /\ out[1].status = 503
  /\ ~is_record_mode

\* ------------------------------------------------------------------------
\* Properties of the archive
\* ------------------------------------------------------------------------

\* C3: a request that was recorded stays in the archive, and the archive's
\* response for it keeps the headers and the body chunks that were stored at
\* record time, whatever requests follow.
C3_ArchiveKeepsRecorded ==
  \A k \in DOMAIN recorded :
    /\ k \in DOMAIN archive
    /\ archive[k].headers = recorded[k].headers
    /\ archive[k].response_data = recorded[k].response_data

\* C4: the mutations of a response (callback rewrite, ech/psi echo, script
\* injection, image scrambling), which the fetcher applies when the handler
\* hands it the request, leave the response objects of the archive unchanged.
C4_MutationsCopy ==
  [][\A c \in SerialConns : pc[c] = "handle" => archive' = archive]_vars

\* ------------------------------------------------------------------------
\* Properties of the origin fetch
\* ------------------------------------------------------------------------

\* The handler's reply to a fetch that returned None is the synthetic 404.
Replied404(c) ==
  /\ pc[c] \in {"send", "done"}
  /\ pc[c] = "send" => response[c] = Own(CreateResponse(404))
  /\ pc[c] = "done" => out[c].kind = "response" /\ out[c].status = 404

\* C5: RealHttpFetch retries after every attempt that raises, at most 3 times
\* for one request; every pass of its loop that does not return uses up one
\* retry, so the loop ends; it returns None only after the attempt that
\* follows the third retry has raised, the response of the first attempt that
\* raises nothing otherwise; and the handler answers None with a 404.
C5_RetryBudget ==
  /\ [](\A c \in SerialConns :
          /\ retries[c] \in 0..3
          /\ failures[c] \in 0..4
          /\ pc[c] = "real" => fetched[c] = "none" /\ failures[c] = 3 - retries[c]
          /\ fetched[c] = "null" => failures[c] = 4 /\ retries[c] = 0 /\ Replied404(c)
          /\ fetched[c] = "ok" => failures[c] = 3 - retries[c]
          /\ (fetched[c] = "ok" /\ pc[c] = "send" /\ response[c].kind = "own") =>
               response[c].val.status = FetchedResponse(request[c]).status)
  /\ [][\A c \in SerialConns :
          (pc[c] = "real" /\ pc'[c] = "real" /\ failures'[c] # failures[c]) =>
            retries'[c] = retries[c] - 1]_vars

\* A fetch has returned None after four attempts, and the 404 was written.
C5_Witness ==
  /\ pc[1] = "done"
  /\ fetched[1] = "null"
  /\ failures[1] = 4
  /\ out[1].status = 404

\* C6: in record mode, a fetch that fails for a request that is not in the
\* archive leaves the archive as it was at every step of the fetch, no entry
\* is added for the request, and the client gets a 404.
C6_FailedFetchKeepsArchive ==
  /\ [](\A c \in SerialConns :
          (fetcher[c] = "record" /\ fetched[c] = "null") =>
            /\ Key(request[c]) \notin DOMAIN archive
            /\ Replied404(c))
  /\ [][\A c \in SerialConns :
          (fetcher[c] = "record" /\ pc[c] = "real" /\ fetched'[c] # "ok") =>
            archive' = archive]_vars

\* In record mode a fetch failed, the 404 was written, and the archive, which
\* holds an earlier recording, has no entry for the request.
C6_Witness ==
  /\ pc[1] = "done"
  /\ fetcher[1] = "record"
  /\ fetched[1] = "null"
  /\ out[1].status = 404
  /\ DOMAIN archive # {}
  /\ Key(request[1]) \notin DOMAIN archive

\* ------------------------------------------------------------------------
\* Properties of replay
\* ------------------------------------------------------------------------

\* C7: in replay mode a request without an exact entry in the archive is
\* answered: with a 404, or with the response of a closest entry when
\* use_closest_match is on and an entry shares its host and path; also when
\* the request matches a replaceCallback or an ignorePath rule.
C7_ReplayMissAnswered ==
  \A c \in SerialConns :
    (pc[c] = "done" /\ fetcher[c] = "replay" /\ "archive" \in invoked[c]
       /\ Key(request[c]) \notin DOMAIN archive) =>
      /\ out[c].kind = "response"
      /\ \/ out[c].status = 404
         \/ use_closest_match /\ ClosestRequests(request[c]) # {}

OriginInvoked(c) == invoked[c] \cap {"real_fetch", "dns", "connect"} # {}

\* C8 (as stated): while the fetcher is in replay mode no request, whatever
\* its host, causes RealHttpFetch or the DNS lookup to be invoked.
C8_ReplayNoOrigin ==
  \A c \in SerialConns : fetcher[c] = "replay" => ~OriginInvoked(c)

\* C8 (amended): while the fetcher is in replay mode no request, except those
\* whose host starts with "127.0.0.1:", causes RealHttpFetch or the DNS lookup
\* to be invoked.
C8_ReplayNoOriginButLocal ==
  \A c \in SerialConns :
    (fetcher[c] = "replay" /\ ~StartsWith(request[c].host, T_localhost)) =>
      /\ ~OriginInvoked(c)
      /\ fetched[c] = "none"
      /\ pc[c] # "real"

\* A replay request for example.com was answered from the archive.
C8_Witness ==
  /\ pc[1] = "done"
  /\ fetcher[1] = "replay"
  /\ request[1].host = H_example
  /\ invoked[1] = {"handlers", "archive"}
  /\ out[1].kind = "response"
  /\ out[1].status = 200

\* ------------------------------------------------------------------------
\* Properties of removeGroupsFromURL
\* ------------------------------------------------------------------------

\* text without the substrings the groups 1.. of a match captured; a group
\* that took no part in the match (span -1, -1) removes nothing.
RECURSIVE WithoutGroups(_, _, _, _, _)
WithoutGroups(text, groups, i, start, acc) ==
  IF i > Len(groups.span) THEN acc \o PyFrom(text, start)
  ELSE IF groups.span[i][1] < 0 THEN WithoutGroups(text, groups, i + 1, start, acc)
  ELSE WithoutGroups(text, groups, i + 1, groups.span[i][2],
                     acc \o SubSeq(text, start + 1, groups.span[i][1]))

\* The removeGroupsFromURL patterns that match host + full_path.
MatchingEdits(host, full_path) ==
  {k \in 1..Len(paths_to_edit) : ReMatch(paths_to_edit[k], host \o full_path).ok}

\* host + full_path with the captures of the first matching pattern removed.
Normalized(host, full_path) ==
  LET k == CHOOSE k \in MatchingEdits(host, full_path) :
             \A m \in MatchingEdits(host, full_path) : k <= m
  IN  WithoutGroups(host \o full_path, ReMatch(paths_to_edit[k], host \o full_path),
                    1, 0, <<>>)

\* C9: the normalized path of a request whose host + full_path matches a
\* removeGroupsFromURL pattern is host + full_path without the substrings the
\* groups captured (abc.foo.com/bart?qux=1&z gives foo.com/bart?z), also when
\* an optional group took no part in the match.
C9_GroupsRemoved ==
  \A c \in SerialConns :
    (pc[c] = "handle" /\ MatchingEdits(request[c].host, request[c].full_path) # {}) =>
      request[c].repr_path = Normalized(request[c].host, request[c].full_path)

\* The requests of the model that a removeGroupsFromURL pattern matches.
EditRequests ==
  {w \in WireRequests :
     /\ ShortCircuit(w) = {}
     /\ MatchingEdits(GetHeader(w.headers, "host"), FullPath(w.path)) # {}}

\* C10: a request that differs only in the text the groups captured from a
\* request recorded before it gets the normalized path of that request (so
\* that in replay it finds the entry recorded for it).
C10_SameNormalizedPath ==
  \A c \in SerialConns : \A w \in EditRequests :
    (/\ pc[c] = "handle"
     /\ Key(ArchivedRequest(w)) \in DOMAIN archive
     /\ request[c].command = w.command
     /\ MatchingEdits(request[c].host, request[c].full_path) # {}
     /\ Normalized(request[c].host, request[c].full_path)
          = Normalized(GetHeader(w.headers, "host"), FullPath(w.path))) =>
      request[c].repr_path = ArchivedRequest(w).repr_path

\* ------------------------------------------------------------------------
\* The callback rewrite rule
\* ------------------------------------------------------------------------

\* C11: the replaceCallback rule isFetchPath("example.com/fetch",
\* "?callback=_xdc_._") fires for exactly the requests whose host + full_path
\* starts with the prefix followed by the suffix, both taken literally.
C11_CallbackRuleLiteral ==
  \A c \in SerialConns :
    pc[c] = "handle" =>
      (CallbackFires(T_fetch \o T_cb, request[c])
         <=> StartsWith(request[c].host \o request[c].full_path, T_fetch \o T_cb))

\* ------------------------------------------------------------------------
\* Chunked responses and the timing of their replay
\* ------------------------------------------------------------------------

\* The request of connection c is answered, in replay mode, from the archive
\* entry recorded for it from a chunked origin reply.
ReplaysChunked(c) ==
  /\ pc[c] = "done"
  /\ out[c].kind = "response"
  /\ fetcher[c] = "replay"
  /\ out[c].status = 200
  /\ Key(request[c]) \in DOMAIN recorded
  /\ ~StartsWith(request[c].host, T_localhost)
  /\ OriginReply(request[c]).chunked

\* The chunked framing of a list of chunks: per chunk the length in hex,
\* CRLF, the chunk, CRLF; then 0 CRLF CRLF.
RECURSIVE Framed(_)
Framed(chunks) ==
  IF Len(chunks) = 0 THEN <<"0", "\r", "\n", "\r", "\n">>
  ELSE HexStr(Len(chunks[1])) \o <<"\r", "\n">> \o chunks[1] \o <<"\r", "\n">>
       \o Framed(Tail(chunks))

\* C12: a chunked origin response that was recorded is replayed with the
\* bytes the origin sent: for each chunk its length in hex, CRLF, the chunk,
\* CRLF, in the origin's order and with its chunk boundaries, and then one
\* final 0 CRLF CRLF.
C12_ChunkedRoundTrip ==
  \A c \in SerialConns :
    ReplaysChunked(c) =>
      /\ out[c].body = OriginReply(request[c]).chunks
      /\ out[c].wire = Framed(OriginReply(request[c]).chunks)

C12_Witness ==
  \E c \in SerialConns :
    /\ ReplaysChunked(c)
    /\ out[c].wire = W_AB_CDEF
    /\ Len(out[c].body) = 2

\* The position of the event (op, n) among the events of a response.
EventAt(events, op, n) == CHOOSE i \in 1..Len(events) : events[i].op = op /\ events[i].n = n

HasEvent(events, op, n) == \E i \in 1..Len(events) : events[i].op = op /\ events[i].n = n

\* The milliseconds slept in events[a..b].
RECURSIVE Slept(_, _, _)
Slept(events, a, b) ==
  IF a > b THEN 0
  ELSE (IF events[a].op \in {"sleep_propagation", "sleep_headers", "sleep_chunk"}
          THEN events[a].ms ELSE 0)
       + Slept(events, a + 1, b)

\* delays[1] + ... + delays[k]
RECURSIVE SumTo(_, _)
SumTo(delays, k) == IF k = 0 THEN 0 ELSE delays[k] + SumTo(delays, k - 1)

\* The handler of connection c is about to send, with the server in replay
\* mode and use_delays set, the archive entry recorded for its request.
SendsWithDelays(c) ==
  /\ pc[c] = "send"
  /\ fetcher[c] = "replay"
  /\ ~is_record_mode
  /\ use_delays
  /\ Deref(response[c]).status = 200
  /\ Key(request[c]) \in DOMAIN recorded
  /\ ~StartsWith(request[c].host, T_localhost)

\* C13: in replay with use_delays, the write of chunk k starts no earlier
\* than delays.data[1] + ... + delays.data[k] milliseconds after the headers
\* were sent.
C13_ChunkNotEarly ==
  [][\A c \in SerialConns :
       (SendsWithDelays(c) /\ pc'[c] = "done") =>
         \A k \in 1..Len(recorded[Key(request[c])].response_data) :
           /\ HasEvent(out'[c].events, "write", k)
           /\ Slept(out'[c].events, EventAt(out'[c].events, "headers", 0),
                    EventAt(out'[c].events, "write", k))
                >= SumTo(recorded[Key(request[c])].delays.data, k)]_vars

C13_Witness ==
  \E c \in SerialConns :
    /\ pc[c] = "done"
    /\ fetcher[c] = "replay"
    /\ use_delays
    /\ Key(request[c]) \in DOMAIN recorded
    /\ Len(recorded[Key(request[c])].response_data) = 2
    /\ SumTo(recorded[Key(request[c])].delays.data, 2) > 0
    /\ HasEvent(out[c].events, "sleep_chunk", 2)
    /\ HasEvent(out[c].events, "write", 2)

\* The positions of the events op among the events of a response.
EventsOf(events, op) == {i \in 1..Len(events) : events[i].op = op}

\* Every chunk of a response is written, in order and after the headers, and
\* a sleep for chunk k comes between a flush and the write of chunk k.
ChunksInOrder(events, n) ==
  /\ \A k \in 1..n :
       /\ Cardinality({i \in EventsOf(events, "write") : events[i].n = k}) = 1
       /\ EventAt(events, "headers", 0) < EventAt(events, "write", k)
       /\ k > 1 => EventAt(events, "write", k - 1) < EventAt(events, "write", k)
  /\ \A i \in EventsOf(events, "sleep_chunk") :
       /\ i > 1 /\ events[i - 1] = Event("flush", events[i].n, 0)
       /\ i < Len(events) /\ events[i + 1] = Event("write", events[i].n, 0)

\* Every chunk is written after a flush and a sleep of its own.
ChunksFlushedAndSlept(events, n) ==
  \A k \in 1..n :
    /\ HasEvent(events, "write", k)
    /\ EventAt(events, "write", k) > 2
    /\ events[EventAt(events, "write", k) - 1].op = "sleep_chunk"
    /\ events[EventAt(events, "write", k) - 2].op = "flush"

C18_WriteFailureCloses ==
  \A c \in SerialConns :
    (pc[c] = "done" /\ out[c].kind = "partial") =>
      /\ out[c].logged
      /\ close_connection[c]
      /\ ~out[c].reflushed

\* ------------------------------------------------------------------------
\* Connections
\* ------------------------------------------------------------------------

LineTooLong(c) == raw[c].linelen > MaxRequestLine

\* The request the handler of connection c has read parses and has no Host
\* header.
WithoutHost(c) ==
  raw[c].linelen <= MaxRequestLine /\ raw[c].parses /\ ~HasHeader(raw[c].headers, "host")

\* The status a malformed request is answered with.
MappedStatus(c) == IF LineTooLong(c) THEN 414 ELSE 500

C19_ResponsesAnswerRequests ==
  \A c \in SerialConns :
    (pc[c] = "done" /\ out[c].kind = "response") =>
      (raw[c] # NoWire /\ stray[c] = "none")

\* ------------------------------------------------------------------------
\* The counter of active requests
\* ------------------------------------------------------------------------

\* The connections whose handler is between the start and the end of
\* do_parse_and_handle_one_request.
ActiveRequests == {c \in Conns : pc[c] \in {"inc", "handle", "real", "send", "exit", "dec"}}

\* No thread is between the load and the store of an update of the counter.
CounterSettled == \A c \in Conns : pc[c] \notin {"inc", "dec"}

\* C15: with handler threads running concurrently, num_active_requests is
\* the number of requests between the start and the end of
\* do_parse_and_handle_one_request whenever no thread is in the middle of an
\* update of it; it is never negative, and 0 when no request is handled.
C15_CounterMatchesActive ==
  /\ num_active_requests >= 0
  /\ CounterSettled => num_active_requests = Cardinality(ActiveRequests)

\* ------------------------------------------------------------------------
\* Properties of the record fetcher's store
\* ------------------------------------------------------------------------

\* The record fetcher has returned the response of a successful origin fetch
\* for the request of connection c.
RecordedFetch(c) == fetcher[c] = "record" /\ fetched[c] = "ok"

\* C21: in record mode the response of a successful origin fetch of a new
\* request is in the archive before any byte is written to the client, and
\* neither a completed nor a failed write of the response removes an entry
\* of the archive.
C21_StoredBeforeWrite ==
  /\ [](\A c \in SerialConns :
          RecordedFetch(c) =>
            /\ Key(request[c]) \in DOMAIN archive
            /\ Key(request[c]) \in DOMAIN recorded
            /\ recorded[Key(request[c])] = FetchedResponse(request[c])
            /\ pc[c] = "send" => out[c] = NoOut)
  /\ [][\A c \in SerialConns :
          pc[c] = "send" /\ pc'[c] = "done" => DOMAIN archive \subseteq DOMAIN archive']_vars

\* The write of a recorded response has failed, and its entry is in the
\* archive.
C21_Witness ==
  /\ pc[1] = "done"
  /\ RecordedFetch(1)
  /\ out[1].kind = "partial"
  /\ Key(request[1]) \in DOMAIN archive

\* ------------------------------------------------------------------------
\* Properties of the fetch of chunked responses
\* ------------------------------------------------------------------------

\* read_chunks has been called on a chunked reply of the origin for the
\* request of connection c, and the fetch is over.
ChunkedReplyRead(c) ==
  /\ pc[c] \in {"send", "done"}
  /\ "read_chunks" \in invoked[c]
  /\ OriginReply(request[c]).chunked

\* C24: a chunked reply of the origin is captured with the chunks the origin
\* made it of, also when a chunk size is followed by a chunk extension: the
\* extension is ignored and the fetch does not fail.
C24_ChunkExtensions ==
  \A c \in SerialConns :
    ChunkedReplyRead(c) =>
      /\ fetched[c] = "ok"
      /\ FetchedResponse(request[c]).response_data = OriginReply(request[c]).chunks

\* The position of the event after which chunk k is awaited: the write of
\* chunk k - 1, or the headers for the first chunk.
PreviousAt(events, k) ==
  IF k = 1 THEN EventAt(events, "headers", 0) ELSE EventAt(events, "write", k - 1)

\* C25: the delays of the chunks are recorded in milliseconds, the unit the
\* writer sleeps them in: a chunk that reached the fetcher d ms after the
\* chunk before it is written, on replay with use_delays, no sooner than
\* d ms after the chunk before it.
C25_DelaysInMs ==
  [][\A c \in SerialConns :
       (SendsWithDelays(c) /\ OriginReply(request[c]).chunked /\ pc'[c] = "done") =>
         \A k \in 1..Len(OriginReply(request[c]).gaps) :
           /\ HasEvent(out'[c].events, "write", k)
           /\ Slept(out'[c].events, PreviousAt(out'[c].events, k),
                    EventAt(out'[c].events, "write", k))
                >= OriginReply(request[c]).gaps[k]]_vars

\* ------------------------------------------------------------------------
\* Properties of the delays and chunks of a response
\* ------------------------------------------------------------------------

\* A response has one delay for each of its chunks.
DelayPerChunk(val) == Len(val.delays.data) = Len(val.response_data)

\* C26: every response the origin fetcher returns has exactly one delay per
\* chunk, chunked or not, and the writer writes every chunk of response_data,
\* in order, for every response it sends.
C26_DelayPerChunk ==
  /\ [](/\ \A k \in DOMAIN recorded : DelayPerChunk(recorded[k])
        /\ \A c \in SerialConns :
             (pc[c] = "send" /\ fetched[c] = "ok" /\ fetcher[c] = "replay") =>
               DelayPerChunk(Deref(response[c])))
  /\ [][\A c \in SerialConns :
          (pc[c] = "send" /\ pc'[c] = "done") =>
            /\ out'[c].body = Deref(response[c]).response_data
            /\ ChunksInOrder(out'[c].events, Len(Deref(response[c]).response_data))]_vars

\* A response fetched with two chunks and two delays has been replayed with
\* its delays, both chunks written.
C26_Witness ==
  /\ pc[1] = "done"
  /\ use_delays
  /\ fetcher[1] = "replay"
  /\ Key(request[1]) \in DOMAIN recorded
  /\ Len(recorded[Key(request[1])].delays.data) = 2
  /\ Len(out[1].body) = 2
  /\ HasEvent(out[1].events, "sleep_chunk", 2)
  /\ HasEvent(out[1].events, "write", 2)

\* ------------------------------------------------------------------------
\* Properties of the request body
\* ------------------------------------------------------------------------

\* The body the client sent with the request w: the bytes after the headers,
\* or the chunks of a chunked body put together.
RequestPayload(w) ==
  IF GetHeader(w.headers, "transfer-encoding") = T_chunked
    THEN Concat(ReadChunked(w.body, 0, <<>>, <<>>, <<>>).chunks)
    ELSE w.body

\* get_archived_http_request has built the ArchivedHttpRequest of the
\* request the handler of connection c has read.
RequestBuilt(c) ==
  /\ pc[c] \in {"handle", "real", "send", "done"}
  /\ raw[c] # NoWire
  /\ ShortCircuit(raw[c]) = {}

\* C30: the body of the ArchivedHttpRequest is the complete body of the
\* request: the content-length bytes, or the dechunked body of a request
\* with transfer-encoding: chunked, and no byte of the body is left unread
\* on the connection once the request is built.
C30_RequestBodyComplete ==
  \A c \in SerialConns :
    RequestBuilt(c) =>
      /\ request[c].request_body.data = RequestPayload(raw[c])
      /\ request[c].request_body.none => RequestPayload(raw[c]) = <<>>
      /\ unread[c] = "none"

\* ------------------------------------------------------------------------
\* Properties of the HTTP-to-HTTPS server
\* ------------------------------------------------------------------------

\* C22: for every request a HttpToHttpsProxyServer accepts, a fetch from the
\* origin uses an HTTPS connection and never a plain HTTP connection.
C22_UpstreamHttps ==
  \A c \in SerialConns :
    /\ "DetailedHTTPConnection" \notin invoked[c]
    /\ "connect" \in invoked[c] => "DetailedHTTPSConnection" \in invoked[c]
    /\ pc[c] \in {"handle", "real"} => request[c].is_ssl

\* A request of the HTTP-to-HTTPS server was fetched from its origin and
\* answered.
C22_Witness ==
  /\ is_ssl
  /\ pc[1] = "done"
  /\ fetched[1] = "ok"
  /\ "DetailedHTTPSConnection" \in invoked[1]
  /\ out[1].status = 200

\* ------------------------------------------------------------------------
\* Properties of the rules of the server
\* ------------------------------------------------------------------------

\* The patterns of the server that match host + full_path of the request of
\* connection c, in the order in which the handler visits them.
MatchingPaths(c) ==
  SelectSeq(server.paths_to_edit,
            LAMBDA p : ReMatch(p, request[c].host \o request[c].full_path).ok)

\* C27: when several removeGroupsFromURL patterns match a request, only the
\* first match is applied: the normalized path is the full path with the
\* groups of that one pattern erased.
C27_FirstMatchOnly ==
  \A c \in SerialConns :
    (pc[c] = "built" /\ Len(MatchingPaths(c)) > 0) =>
      request[c].repr_path =
        EditPath(request[c].host, request[c].full_path, <<MatchingPaths(c)[1]>>)

\* The depth of parentheses at the end of url[1..i], counting the
\* parentheses no backslash escapes.
RECURSIVE Depth(_, _)
Depth(url, i) ==
  IF i = 0 THEN 0
  ELSE IF i > 1 /\ url[i - 1] = "\\" THEN Depth(url, i - 1)
  ELSE IF url[i] = "(" THEN Depth(url, i - 1) + 1
  ELSE IF url[i] = ")" THEN Depth(url, i - 1) - 1
  ELSE Depth(url, i - 1)

\* A group of the regex starts inside another group.
HasNestedGroup(url) ==
  \E i \in 1..Len(url) :
    /\ url[i] = "("
    /\ i = 1 \/ url[i - 1] # "\\"
    /\ Depth(url, i - 1) > 0

\* The regexes of the removeGroupsFromURL rules of the server.
GroupPaths ==
  LET edits == RulesIn(server.rules, "urlMatches", "removeGroupsFromURL")
  IN  UNION {{edits[n].args[k] : k \in 1..Len(edits[n].args)} : n \in 1..Len(edits)}

\* C28: parse_rules raises for every removeGroupsFromURL regex that has a
\* capturing group nested inside another, whatever text separates the two
\* opening parentheses, and accepts every regex without nested groups.
C28_NestedGroupsRejected ==
  server.parsed => (server.raised <=> \E url \in GroupPaths : HasNestedGroup(url))

\* C29: for every removeHeader rule whose regex matches the path of the
\* request, the header name of the rule is among the excluded headers of
\* the ArchivedHttpRequest, also when several rules have the same regex and
\* different header names.
C29_HeadersExcluded ==
  \A c \in SerialConns :
    pc[c] = "built" =>
      \A n \in 1..Len(server.rules) :
        (server.rules[n].predicate = "urlMatches" /\ server.rules[n].action = "removeHeader") =>
          \A k \in 1..Len(server.rules[n].args) :
            ReMatch(Compile(server.rules[n].args[k]), request[c].path).ok =>
              server.rules[n].values[1] \in request[c].exclude_headers

\* ------------------------------------------------------------------------
\* Properties of the CertCache
\* ------------------------------------------------------------------------

\* C23: for any hostname, however many handshakes for it run concurrently,
\* at most one leaf certificate is generated, and every handshake that
\* completes presents the certificate the cache holds for its hostname.
C23_OneCertPerHost ==
  /\ \A h \in TlsHosts : minted[h] <= 1
  /\ \A c \in TlsConns :
       handshake[c].at = "wrap" =>
         /\ Cached(cert_cache, handshake[c].host)
         /\ handshake[c].cert = cert_cache[handshake[c].host]

\* Two handshakes for one hostname both found no entry at the unsynchronized
\* lookup; one has generated the certificate and the other, now holding the
\* lock, is about to find it at the second lookup, while a third connection
\* completes with the same certificate.
C23_Witness ==
  \E c1, c2, c3 \in TlsConns :
    /\ c1 # c2 /\ c2 # c3 /\ c1 # c3
    /\ handshake[c1].host = handshake[c2].host
    /\ handshake[c3].host = handshake[c1].host
    /\ handshake[c1].at = "wrap"
    /\ handshake[c2].at = "recheck"
    /\ handshake[c3].at = "wrap"
    /\ minted[handshake[c1].host] = 1

\* ------------------------------------------------------------------------
\* Properties of the fetchers
\* ------------------------------------------------------------------------

\* The archive entries a request is served from: its own entry, or with
\* use_closest_match in replay mode the closest ones.
ServedFrom(c) ==
  IF Key(request[c]) \in DOMAIN archive THEN {Key(request[c])}
  ELSE IF fetch = "replay" /\ use_closest_match THEN ClosestRequests(request[c])
  ELSE {}

\* The body of an archived response with the mutations its request asks for:
\* the callback rewrite when a callback path matches, then the ech/psi echo
\* when the path is an ignore path.
MutatedText(req, val) ==
  LET first == IF \E p \in callback_paths : CallbackFires(p, req)
                 THEN ReplaceCallback(req.full_path, FALSE, val).response ELSE val
      second == IF req.path \in ignore_paths
                  THEN EchoEchPsi(req.full_path, FALSE, first).response ELSE first
  IN  GetText(second)

\* The fetcher of connection c is asked for a request the archive serves,
\* and neither script injection nor image scrambling is configured.
FetchFromArchive(c) ==
  /\ pc[c] = "handle" /\ pc'[c] # "handle"
  /\ ~StartsWith(request[c].host, T_localhost)
  /\ ServedFrom(c) # {}
  /\ ~inject_script /\ ~scramble_images

\* C31: every response served from the archive (an exact hit in replay mode,
\* a closest match, a repeated request in record mode) leaves the fetcher
\* with the mutations of its request applied, callback rewrite first and
\* ech/psi echo second, and is then sent.
C31_ServedMutated ==
  [][\A c \in SerialConns :
       FetchFromArchive(c) =>
         /\ pc'[c] = "send"
         /\ \E k \in ServedFrom(c) :
              GetText(IF response'[c].kind = "arch" THEN archive'[response'[c].key]
                      ELSE response'[c].val) = MutatedText(request[c], archive[k])]_vars

\* The same for exact hits and repeated requests only.
C31_ExactHitsMutated ==
  [][\A c \in SerialConns :
       (FetchFromArchive(c) /\ Key(request[c]) \in DOMAIN archive) =>
         /\ pc'[c] = "send"
         /\ GetText(IF response'[c].kind = "arch" THEN archive'[response'[c].key]
                    ELSE response'[c].val)
              = MutatedText(request[c], archive[Key(request[c])])]_vars

\* ------------------------------------------------------------------------
\* Properties of ControllableHttpArchiveFetch and RecordHttpArchiveFetch
\* with threads
\* ------------------------------------------------------------------------

\* The sleeps of send_archived_http_response that belong to replay.
ReplaySleeps(events) ==
  { k \in 1..Len(events) :
      events[k].op \in {"sleep_propagation", "sleep_headers", "sleep_chunk"} }

\* C32: in every state is_record_mode is true exactly when the calls go to
\* the record fetcher, and a response the record fetcher returned is sent
\* without the sleeps of replay, a response the replay fetcher returned is
\* sent as replay sends it (is_record_mode is false at line 151).
C32_ConsistentMode ==
  /\ [](is_record_mode <=> fetch = "record")
  /\ [][\A c \in Conns :
          (pc[c] = "send" /\ pc'[c] = "done" /\ out'[c].kind = "response") =>
             /\ fetcher[c] = "record" => ReplaySleeps(out'[c].events) = {}
             /\ fetcher[c] = "replay" => ~is_record_mode]_vars

\* C33: the record fetcher fetches a request from the origin with success,
\* and writes its entry, only while the archive has no entry for it; a
\* request that is in the archive when the record fetcher is called is served
\* from the archive, which keeps its entries.
C33_FetchedAndWrittenOnce ==
  [][\A c \in Conns :
       /\ (pc[c] = "real" /\ fetcher[c] = "record" /\ fetched'[c] = "ok") =>
             Key(request[c]) \notin DOMAIN archive
       /\ (pc[c] = "handle" /\ fetch = "record" /\ pc'[c] # "handle"
             /\ Key(request[c]) \in DOMAIN archive) =>
             /\ pc'[c] = "send"
             /\ "real_fetch" \notin invoked'[c]
             /\ recorded' = recorded]_vars
====
